---- MODULE Spec2Model ----
(***************************************************************************)
(* Clipboard Manager (Chrome extension popup): the history store of        *)
(* js/storage.js, the popup handlers of popup.js that call it, and the     *)
(* filter pipeline of js/ui.js.                                            *)
(*                                                                         *)
(* Conventions.                                                            *)
(*  - A text is a sequence of one-character strings, so that trim,         *)
(*    toLowerCase and the regular expressions can be computed.             *)
(*  - Time is counted in units of 1/Granule second instead of              *)
(*    milliseconds (30 days in milliseconds do not fit TLC's integers).    *)
(*    Date.now() is a multiple of Granule; Math.random() adds a fraction   *)
(*    k/Granule of one clock unit.                                         *)
(*  - An entry is a record; a field the JavaScript object lacks is         *)
(*    modelled by its falsy value (pinned FALSE, type "", timestamp 0),    *)
(*    which every test of the code treats like the missing field.          *)
(*  - chrome.storage.local answers every get and set in the                *)
(*    specification Spec (no lastError).                                   *)
(***************************************************************************)
EXTENDS Integers, Sequences, FiniteSets, TLC

VARIABLES
  history,     \* chrome.storage.local value under 'clipboardHistory'
  settings,    \* chrome.storage.local value under 'settings'
  globalTags,  \* chrome.storage.local value under 'tags'
  tagColors,   \* chrome.storage.local value under 'tagColors'
  freedColors, \* history variable: the color a tag had when removeTag deleted it
  now,         \* the clock read by Date.now()
  pending,     \* handleImportClipboard: the validItems still to be saved
  searchQuery,      \* UI.state.searchQuery
  currentFilter,    \* UI.state.currentFilter
  filteredHistory,  \* the entries the list shows, in order
  windowHistory,    \* window.clipboardHistory
  jsonFile,         \* the JSON text exportHistory wrote, handleImportClipboard reads
  asyncOps,         \* the asynchronous store operations started, and where each is
  confirmHandlers,  \* the click listeners on the confirmDelete button
  last         \* the call that completed last: its name, arguments, result

viewVars == <<searchQuery, currentFilter, filteredHistory, windowHistory>>

asyncVars == <<jsonFile, asyncOps, confirmHandlers>>

vars ==
  <<history, settings, globalTags, tagColors, freedColors, now, pending,
    viewVars, asyncVars, last>>

----------------------------------------------------------------------------
(* Bounds of the model *)

Granule == 2
MaxTicks == 3
MaxLimit == 2

----------------------------------------------------------------------------
(* Time *)

DayLength == 24 * 60 * 60 * Granule

StartNow == 31 * DayLength

MaxNow == StartNow + MaxTicks * Granule

(* An imported timestamp that is exactly 30 days old when the popup opens *)
OldStamp == StartNow - 30 * DayLength

(* A timestamp no entry ever carries *)
NoSuchStamp == StartNow - 1

DateNow == now

MathRandom == 0 .. (Granule - 1)

----------------------------------------------------------------------------
(* Texts *)

Whitespace == {" ", "\n", "\t"}

RECURSIVE TrimStart(_)
TrimStart(s) ==
  IF s # <<>> /\ Head(s) \in Whitespace THEN TrimStart(Tail(s)) ELSE s

RECURSIVE TrimEnd(_)
TrimEnd(s) ==
  IF s # <<>> /\ s[Len(s)] \in Whitespace
  THEN TrimEnd(SubSeq(s, 1, Len(s) - 1))
  ELSE s

Trim(s) == TrimEnd(TrimStart(s))

TextA == <<"a">>
TextB == <<"B">>
TextC == <<"a", "b">>

Texts == {TextA, TextB, TextC}

(* What navigator.clipboard.readText() may return *)
ClipTexts == Texts \cup {<<>>, <<" ">>, <<" ", "a">>}

MaxTextLength == 10000

----------------------------------------------------------------------------
(* Utils.detectContentType *)

UpperCase == <<"A", "B", "C", "D", "E", "F", "G", "H", "I", "J", "K", "L", "M", "N", "O", "P", "Q", "R", "S", "T", "U", "V", "W", "X", "Y", "Z">>
LowerCase == <<"a", "b", "c", "d", "e", "f", "g", "h", "i", "j", "k", "l", "m", "n", "o", "p", "q", "r", "s", "t", "u", "v", "w", "x", "y", "z">>

ToLowerChar(c) ==
  IF \E i \in 1..Len(UpperCase) : UpperCase[i] = c
  THEN LowerCase[CHOOSE i \in 1..Len(UpperCase) : UpperCase[i] = c]
  ELSE c

ToLowerCase(s) == [i \in 1..Len(s) |-> ToLowerChar(s[i])]

StartsWith(s, p) == Len(s) >= Len(p) /\ SubSeq(s, 1, Len(p)) = p

Includes(s, p) ==
  \E i \in 0..(Len(s) - Len(p)) : SubSeq(s, i + 1, i + Len(p)) = p

At(s, i) == IF i >= 1 /\ i <= Len(s) THEN s[i] ELSE ""

Digits == {"0", "1", "2", "3", "4", "5", "6", "7", "8", "9"}

AllDigits(s, from, to) == \A i \in from..to : At(s, i) \in Digits

RemoveWhitespace(s) == SelectSeq(s, LAMBDA c : c \notin Whitespace)

(* /^(https?:\/\/|www\.)[^\s]+$/i on text.trim() *)
UrlPrefixes == {<<"h", "t", "t", "p", ":", "/", "/">>, <<"h", "t", "t", "p", "s", ":", "/", "/">>, <<"w", "w", "w", ".">>}

urlPattern(t) ==
  \E p \in UrlPrefixes :
    /\ StartsWith(ToLowerCase(t), p)
    /\ Len(t) > Len(p)
    /\ \A i \in (Len(p) + 1)..Len(t) : t[i] \notin Whitespace

(* /^[^\s@]+@[^\s@]+\.[^\s@]+$/ on text.trim() *)
emailPattern(t) ==
  /\ \A i \in 1..Len(t) : t[i] \notin Whitespace
  /\ Cardinality({i \in 1..Len(t) : t[i] = "@"}) = 1
  /\ LET k == CHOOSE i \in 1..Len(t) : t[i] = "@"
     IN  /\ k > 1
         /\ \E j \in (k + 2)..(Len(t) - 1) : t[j] = "."

(* /^[\+]?[(]?[0-9]{3}[)]?[-\s\.]?[0-9]{3}[-\s\.]?[0-9]{4,6}$/ on the text
   with its whitespace removed. Every optional character differs from the
   digit that must follow it, so the match is decided left to right. *)
phonePattern(s) ==
  LET p1 == 1 + (IF At(s, 1) = "+" THEN 1 ELSE 0)
      p2 == p1 + (IF At(s, p1) = "(" THEN 1 ELSE 0)
      p3 == p2 + 3
      p4 == p3 + (IF At(s, p3) = ")" THEN 1 ELSE 0)
      p5 == p4 + (IF At(s, p4) \in {"-", "."} THEN 1 ELSE 0)
      p6 == p5 + 3
      p7 == p6 + (IF At(s, p6) \in {"-", "."} THEN 1 ELSE 0)
      rest == Len(s) - p7 + 1
  IN  /\ AllDigits(s, p2, p3 - 1)
      /\ AllDigits(s, p5, p6 - 1)
      /\ rest >= 4 /\ rest <= 6
      /\ AllDigits(s, p7, Len(s))

CodeKeywords == {<<"f", "u", "n", "c", "t", "i", "o", "n">>,
                 <<"c", "o", "n", "s", "t">>,
                 <<"l", "e", "t">>,
                 <<"v", "a", "r">>,
                 <<"c", "l", "a", "s", "s">>,
                 <<"i", "m", "p", "o", "r", "t">>,
                 <<"e", "x", "p", "o", "r", "t">>,
                 <<"i", "f">>,
                 <<"f", "o", "r">>,
                 <<"w", "h", "i", "l", "e">>}

CodeChars == {"{", "}", "[", "]", "(", ")", ";"}

codeIndicators(text) ==
  \/ \E kw \in CodeKeywords :
       StartsWith(text, kw) /\ At(text, Len(kw) + 1) \in Whitespace
  \/ \E i \in 1..Len(text) : text[i] \in CodeChars
  \/ Includes(text, <<"=", ">">>)
  \/ StartsWith(TrimStart(text), <<"/", "/">>)
  \/ StartsWith(TrimStart(text), <<"/", "*">>)
  \/ \E i \in 1..Len(text) : \E j \in (i + 2)..Len(text) :
       /\ text[i] = "<"
       /\ text[j] = ">"
       /\ \A k \in (i + 1)..(j - 1) : text[k] # ">"

detectContentType(text) ==
  IF urlPattern(Trim(text)) THEN "url"
  ELSE IF emailPattern(Trim(text)) THEN "email"
  ELSE IF phonePattern(RemoveWhitespace(text)) THEN "phone"
  ELSE IF codeIndicators(text) THEN "code"
  ELSE "text"

----------------------------------------------------------------------------
(* Entries *)

Undefined == <<>>

Some(v) == <<v>>

(* item.tags || [] *)
TagsOf(e) == IF e.tags = Undefined THEN <<>> ELSE e.tags[1]

Entry(text, timestamp, favorite, pinned, type, tags) ==
  [text |-> text, timestamp |-> timestamp, favorite |-> favorite,
   pinned |-> pinned, type |-> type, tags |-> tags]

Range(s) == {s[i] : i \in 1..Len(s)}

(* Array.prototype.findIndex / find over the outcomes of the test on each
   element: the first index that matches, 0 for -1 *)
FindIndex(tests) ==
  IF \E i \in 1..Len(tests) : tests[i]
  THEN CHOOSE i \in 1..Len(tests) : tests[i] /\ \A j \in 1..(i - 1) : ~tests[j]
  ELSE 0

----------------------------------------------------------------------------
(* The comparators handed to Array.prototype.sort, which is stable *)

(* A comparator that forgets the pin: order by time alone *)
comparePinnedRecent_ByTime(a, b) == b.timestamp - a.timestamp

comparePinnedRecent(a, b) ==
  IF a.pinned /\ ~b.pinned THEN -1
  ELSE IF ~a.pinned /\ b.pinned THEN 1
  ELSE b.timestamp - a.timestamp

comparePinnedOldest(a, b) ==
  IF a.pinned /\ ~b.pinned THEN -1
  ELSE IF ~a.pinned /\ b.pinned THEN 1
  ELSE a.timestamp - b.timestamp

compare(order, a, b) ==
  IF order = "oldest" THEN comparePinnedOldest(a, b) ELSE comparePinnedRecent(a, b)

(* e placed behind every element that does not compare greater than it *)
InsertSorted(e, s, order) ==
  LET k == FindIndex([i \in 1..Len(s) |-> compare(order, s[i], e) > 0])
  IN  IF k = 0 THEN Append(s, e)
      ELSE SubSeq(s, 1, k - 1) \o <<e>> \o SubSeq(s, k, Len(s))

RECURSIVE SortRecentFrom(_, _)
SortRecentFrom(done, todo) ==
  IF todo = <<>> THEN done
  ELSE SortRecentFrom(InsertSorted(Head(todo), done, "recent"),
                      Tail(todo))

RECURSIVE SortOldestFrom(_, _)
SortOldestFrom(done, todo) ==
  IF todo = <<>> THEN done
  ELSE SortOldestFrom(InsertSorted(Head(todo), done, "oldest"),
                      Tail(todo))

SortRecent(s) == SortRecentFrom(<<>>, s)

SortOldest(s) == SortOldestFrom(<<>>, s)

----------------------------------------------------------------------------
(* Storage *)

DEFAULT_SETTINGS == [maxItems |-> 1000, autoDelete |-> FALSE, autoDeleteDays |-> 30]

getClipboardHistory(stored) == SortRecent(stored)

getSettings(stored) == stored

(* The result of an operation: the value it leaves under 'clipboardHistory',
   what it returns, and the branch it took *)
Result(h, ret, path) == [history |-> h, ret |-> ret, path |-> path]

(* A sweep that exempts favorites only *)
autoDeleteKeeps_FavoriteOnly(h, cutoffDate) ==
  h.favorite \/ h.timestamp > cutoffDate

autoDeleteKeeps(h, cutoffDate) ==
  h.pinned \/ h.favorite \/ h.timestamp > cutoffDate

overLimit(h, s) == Len(h) > s.maxItems

(* A save without the search for an entry of the same text *)
saveClipboardItem_NoDuplicateCheck(stored, stgs, clock, item) ==
  LET added == SortRecent(Append(getClipboardHistory(stored), item))
  IN  IF overLimit(added, getSettings(stgs))
      THEN Result(stored, FALSE, "limit")
      ELSE Result(added, TRUE, "new")

(* A save whose duplicate branch copies the timestamp of the item *)
saveClipboardItem_ItemStamp(stored, stgs, clock, item) ==
  LET h == getClipboardHistory(stored)
      existingIndex == FindIndex([k \in 1..Len(h) |-> h[k].text = item.text])
      added == SortRecent(Append(h, item))
  IN  IF existingIndex # 0
      THEN Result([h EXCEPT ![existingIndex].timestamp = item.timestamp],
                  TRUE, "duplicate")
      ELSE IF overLimit(added, getSettings(stgs))
      THEN Result(stored, FALSE, "limit")
      ELSE Result(added, TRUE, "new")

(* A save whose duplicate branch takes the fields of the item over *)
saveClipboardItem_TakesItem(stored, stgs, clock, item) ==
  LET h == getClipboardHistory(stored)
      existingIndex == FindIndex([k \in 1..Len(h) |-> h[k].text = item.text])
      added == SortRecent(Append(h, item))
  IN  IF existingIndex # 0
      THEN Result([h EXCEPT ![existingIndex] =
                     [item EXCEPT !.timestamp = clock,
                                  !.pinned = h[existingIndex].pinned]],
                  TRUE, "duplicate")
      ELSE IF overLimit(added, getSettings(stgs))
      THEN Result(stored, FALSE, "limit")
      ELSE Result(added, TRUE, "new")

(* `history` is declared const (line 105): the assignment of the trimmed
   array (line 134) throws a TypeError, which the catch turns into false
   before anything is written. *)
saveClipboardItem(stored, stgs, clock, item) ==
  LET h == getClipboardHistory(stored)
      s == getSettings(stgs)
      existingIndex == FindIndex([k \in 1..Len(h) |-> h[k].text = item.text])
      added == SortRecent(Append(h, item))
      cutoffDate == clock - s.autoDeleteDays * DayLength
  IN  IF existingIndex # 0
      THEN Result([h EXCEPT ![existingIndex].timestamp = clock], TRUE, "duplicate")
      ELSE IF overLimit(added, s)
      THEN Result(stored, FALSE, "limit")
      ELSE IF s.autoDelete
      THEN Result(SelectSeq(added, LAMBDA x : autoDeleteKeeps(x, cutoffDate)),
                  TRUE, "sweep")
      ELSE Result(added, TRUE, "new")

(* A delete that reports a timestamp it did not find *)
deleteClipboardItem_ReportsMiss(stored, timestamp) ==
  LET h == getClipboardHistory(stored)
      remaining == SelectSeq(h, LAMBDA x : x.timestamp # timestamp)
  IN  IF Len(remaining) = Len(h)
      THEN Result(stored, FALSE, "none")
      ELSE Result(SortRecent(remaining), TRUE, "removed")

deleteClipboardItem(stored, timestamp) ==
  LET h == getClipboardHistory(stored)
      remaining == SelectSeq(h, LAMBDA x : x.timestamp # timestamp)
  IN  Result(SortRecent(remaining), TRUE,
             IF Len(remaining) = Len(h) THEN "none" ELSE "removed")

(* A clear that ignores keepFavorites *)
clearKeeps_PinnedOnly(e, keepFavorites, keepPinned) == keepPinned /\ e.pinned

clearKeeps(e, keepFavorites, keepPinned) ==
  (keepPinned /\ e.pinned) \/ (keepFavorites /\ e.favorite)

clearClipboardHistory(stored, keepFavorites, keepPinned) ==
  IF keepFavorites \/ keepPinned
  THEN Result(SortRecent(SelectSeq(getClipboardHistory(stored),
                LAMBDA x : clearKeeps(x, keepFavorites, keepPinned))),
              TRUE, "keep")
  ELSE Result(<<>>, TRUE, "all")

(* A toggle that flips every entry carrying the timestamp *)
toggleFavorite_EveryMatch(stored, timestamp) ==
  LET h == getClipboardHistory(stored)
      i == FindIndex([k \in 1..Len(h) |-> h[k].timestamp = timestamp])
  IN  IF i # 0
      THEN Result([k \in 1..Len(h) |->
                     IF h[k].timestamp = timestamp
                     THEN [h[k] EXCEPT !.favorite = ~h[k].favorite] ELSE h[k]],
                  ~h[i].favorite, "found")
      ELSE Result(stored, FALSE, "none")

toggleFavorite(stored, timestamp) ==
  LET h == getClipboardHistory(stored)
      i == FindIndex([k \in 1..Len(h) |-> h[k].timestamp = timestamp])
  IN  IF i # 0
      THEN Result([h EXCEPT ![i].favorite = ~h[i].favorite], ~h[i].favorite, "found")
      ELSE Result(stored, FALSE, "none")

togglePin(stored, timestamp) ==
  LET h == getClipboardHistory(stored)
      i == FindIndex([k \in 1..Len(h) |-> h[k].timestamp = timestamp])
  IN  IF i # 0
      THEN Result(SortRecent([h EXCEPT ![i].pinned = ~h[i].pinned]),
                  ~h[i].pinned, "found")
      ELSE Result(stored, FALSE, "none")

(* { ...settings, ...updates }: updates is a function on some of the keys *)
updateSettings(stgs, updates) ==
  [k \in DOMAIN getSettings(stgs) |->
     IF k \in DOMAIN updates THEN updates[k] ELSE getSettings(stgs)[k]]

(* Storage.importHistory(data, 'json') with JSON.parse(data) = importedItems *)
importValid(c) == c.text # <<>>

importNormalize(c, clock) ==
  Entry(c.text,
        IF c.timestamp # 0 THEN c.timestamp ELSE clock,
        c.favorite,
        FALSE,
        IF c.type # "" THEN c.type ELSE detectContentType(c.text),
        Undefined)

RECURSIVE uniqueByText(_, _)
uniqueByText(acc, merged) ==
  IF merged = <<>> THEN acc
  ELSE uniqueByText(
         IF \E a \in Range(acc) : a.text = Head(merged).text
         THEN acc ELSE Append(acc, Head(merged)),
         Tail(merged))

importHistory(stored, importedItems, clock) ==
  LET valid == SelectSeq(importedItems, importValid)
      validItems == [i \in 1..Len(valid) |-> importNormalize(valid[i], clock)]
  IN  IF Len(validItems) > 0
      THEN Result(uniqueByText(<<>>, validItems \o getClipboardHistory(stored)),
                  TRUE, "merged")
      ELSE Result(stored, FALSE, "none")

(* JSON. A stringified entry is the object with the properties whose value is
   defined; a stringified array keeps the order of its elements. *)

JSONkeys(e) ==
  {"text", "timestamp", "favorite", "pinned"}
    \cup (IF e.type # "" THEN {"type"} ELSE {})
    \cup (IF e.tags # Undefined THEN {"tags"} ELSE {})

JSONstring(s) == [string |-> s]

JSONnumber(n) == [number |-> n]

JSONnull == [null |-> TRUE]

typeofString(v) == DOMAIN v = {"string"}

JSONobject(e) ==
  [k \in JSONkeys(e) |->
     CASE k = "tags" -> TagsOf(e)
       [] k = "text" -> JSONstring(e.text)
       [] OTHER -> e[k]]

JSONstringify(h) == [i \in 1..Len(h) |-> JSONobject(h[i])]

(* The entry read back from a parsed object: a property that is absent reads
   as undefined *)
JSONentry(o) ==
  Entry(IF "text" \in DOMAIN o /\ typeofString(o.text) THEN o.text.string
        ELSE <<>>,
        IF "timestamp" \in DOMAIN o THEN o.timestamp ELSE 0,
        IF "favorite" \in DOMAIN o THEN o.favorite ELSE FALSE,
        IF "pinned" \in DOMAIN o THEN o.pinned ELSE FALSE,
        IF "type" \in DOMAIN o THEN o.type ELSE "",
        IF "tags" \in DOMAIN o THEN Some(o.tags) ELSE Undefined)

JSONparse(text) == [i \in 1..Len(text) |-> JSONentry(text[i])]

(* exportHistory('json') *)
exportHistory(stored) == JSONstringify(getClipboardHistory(stored))

----------------------------------------------------------------------------
(* Tags. tagColors is the object stored under 'tagColors': a function from
   the tag names that are its keys to their colors. *)

colorPalette ==
  <<"#3ecf8e", "#3b82f6", "#ef4444", "#f59e0b", "#8b5cf6",
    "#ec4899", "#10b981", "#14b8a6", "#f97316", "#06b6d4">>

SeqIncludes(s, x) == \E i \in 1..Len(s) : s[i] = x

(* [...new Set(s)]: the first occurrence of each element, in order *)
RECURSIVE uniqueFrom(_, _)
uniqueFrom(acc, s) ==
  IF s = <<>> THEN acc
  ELSE uniqueFrom(IF SeqIncludes(acc, Head(s)) THEN acc ELSE Append(acc, Head(s)),
                  Tail(s))

(* An assignment that counts the colors once, before the loop *)
assignColors_CountOnce(colors, newTags) ==
  [k \in DOMAIN colors \cup Range(newTags) |->
     IF k \in DOMAIN colors THEN colors[k]
     ELSE colorPalette[(Cardinality(DOMAIN colors) % Len(colorPalette)) + 1]]

(* newTags.forEach: a tag without a color gets the palette entry at
   Object.keys(colors).length % colorPalette.length *)
RECURSIVE assignColors(_, _)
assignColors(colors, newTags) ==
  IF newTags = <<>> THEN colors
  ELSE LET tag == Head(newTags)
           keys == Cardinality(DOMAIN colors)
       IN  assignColors(
             IF tag \in DOMAIN colors THEN colors
             ELSE [k \in DOMAIN colors \cup {tag} |->
                     IF k = tag THEN colorPalette[(keys % Len(colorPalette)) + 1]
                     ELSE colors[k]],
             Tail(newTags))

updateGlobalTags(allTags, colors, newTags) ==
  [tags |-> uniqueFrom(<<>>, allTags \o newTags),
   colors |-> assignColors(colors, newTags)]

(* The result also carries the tags the call hands to updateGlobalTags *)
addTagsToItem(stored, timestamp, tags) ==
  LET h == getClipboardHistory(stored)
      i == FindIndex([k \in 1..Len(h) |-> h[k].timestamp = timestamp])
      itemTags == TagsOf(h[i])
      newTags == SelectSeq(tags, LAMBDA tag : ~SeqIncludes(itemTags, tag))
  IN  IF i # 0
      THEN [history |-> [h EXCEPT ![i].tags = Some(itemTags \o newTags)],
            ret |-> TRUE, path |-> "found", newTags |-> newTags]
      ELSE [history |-> stored, ret |-> FALSE, path |-> "none",
            newTags |-> <<>>]

removeTagFromItem(stored, tag, timestamp) ==
  LET h == getClipboardHistory(stored)
      i == FindIndex([k \in 1..Len(h) |-> h[k].timestamp = timestamp])
  IN  IF i # 0 /\ h[i].tags # Undefined
      THEN Result([h EXCEPT ![i].tags =
                      Some(SelectSeq(TagsOf(h[i]), LAMBDA x : x # tag))],
                  TRUE, "found")
      ELSE Result(stored, FALSE, "none")

----------------------------------------------------------------------------
(* Storage failures. chrome.runtime.lastError makes Storage.get or Storage.set
   reject; a fault <<call, key>> names the call that fails while one
   operation runs. *)

KEYS == {"clipboardHistory", "settings", "tags", "tagColors"}

NoFault == <<"", "">>

Faults == {<<c, k>> : c \in {"get", "set"}, k \in KEYS}

getFails(f, key) == f = <<"get", key>>

setFails(f, key) == f = <<"set", key>>

(* What getClipboardHistory hands to its caller: its catch answers a failed
   read with [] *)
readHistory(f, stored) ==
  IF getFails(f, "clipboardHistory") THEN <<>> ELSE stored

(* getSettings answers a failed read with DEFAULT_SETTINGS *)
readSettings(f, stgs) ==
  IF getFails(f, "settings") THEN DEFAULT_SETTINGS ELSE stgs

getAllTags(f, tags) == IF getFails(f, "tags") THEN <<>> ELSE tags

getTagColors(f, colors) == IF getFails(f, "tagColors") THEN <<>> ELSE colors

(* The outcome of a Storage operation that computed r from what it read:
   nothing is written on a branch without a set, and a rejected set is
   caught and answered with false *)
caught(f, stored, r, writes) ==
  IF ~writes THEN [r EXCEPT !.history = stored]
  ELSE IF setFails(f, "clipboardHistory") THEN Result(stored, FALSE, "caught")
  ELSE r

(* updateGlobalTags: its catch ends the function at the first rejected set *)
updateGlobalTagsFaulty(f, allTags, colors, newTags) ==
  LET g == updateGlobalTags(getAllTags(f, allTags), getTagColors(f, colors),
                            newTags)
  IN  IF setFails(f, "tags") THEN [tags |-> allTags, colors |-> colors]
      ELSE IF setFails(f, "tagColors") THEN [tags |-> g.tags, colors |-> colors]
      ELSE g

(* A removal that leaves the color of the tag in place *)
removeTag_KeepsColor(f, stored, allTags, colors, tagToRemove) ==
  LET h == getClipboardHistory(stored)
  IN  [history |->
         [i \in 1..Len(h) |->
            IF h[i].tags # Undefined
            THEN [h[i] EXCEPT !.tags =
                    Some(SelectSeq(TagsOf(h[i]), LAMBDA tag : tag # tagToRemove))]
            ELSE h[i]],
       tags |-> SelectSeq(allTags, LAMBDA tag : tag # tagToRemove),
       colors |-> colors,
       thrown |-> FALSE]

(* A removal that leaves the tags of the stored entries in place *)
removeTag_LeavesEntries(f, stored, allTags, colors, tagToRemove) ==
  [history |-> stored,
   tags |-> SelectSeq(allTags, LAMBDA tag : tag # tagToRemove),
   colors |-> [k \in DOMAIN colors \ {tagToRemove} |-> colors[k]],
   thrown |-> FALSE]

(* popup.js removeTag: three reads, each followed by a set; nothing catches a
   rejected set, which ends the function with what was written before it *)
removeTag(f, stored, allTags, colors, tagToRemove) ==
  LET tags == getAllTags(f, allTags)
      updatedTags == SelectSeq(tags, LAMBDA tag : tag # tagToRemove)
      current == getTagColors(f, colors)
      updatedColors == [k \in DOMAIN current \ {tagToRemove} |-> current[k]]
      h == getClipboardHistory(readHistory(f, stored))
      stripped ==
        [i \in 1..Len(h) |->
           IF h[i].tags # Undefined
           THEN [h[i] EXCEPT !.tags =
                   Some(SelectSeq(TagsOf(h[i]), LAMBDA tag : tag # tagToRemove))]
           ELSE h[i]]
  IN  IF setFails(f, "tags")
      THEN [history |-> stored, tags |-> allTags, colors |-> colors,
            thrown |-> TRUE]
      ELSE IF setFails(f, "tagColors")
      THEN [history |-> stored, tags |-> updatedTags, colors |-> colors,
            thrown |-> TRUE]
      ELSE IF setFails(f, "clipboardHistory")
      THEN [history |-> stored, tags |-> updatedTags, colors |-> updatedColors,
            thrown |-> TRUE]
      ELSE [history |-> stripped, tags |-> updatedTags,
            colors |-> updatedColors, thrown |-> FALSE]

----------------------------------------------------------------------------
(* The list view (js/ui.js) *)

TagFilters == {"tag:x", "tag:y"}

(* currentFilter.substring(4) *)
tagOfFilter(filter) == IF filter = "tag:x" THEN "x" ELSE "y"

typeOf(item) ==
  IF item.type # "" THEN item.type ELSE detectContentType(item.text)

(* A view without the closing sort that puts pinned entries first *)
filterHistory_NoFinalSort(h, query, filter) ==
  LET searched ==
        IF query # <<>>
        THEN SelectSeq(h, LAMBDA x : Includes(ToLowerCase(x.text), ToLowerCase(query)))
        ELSE h
  IN  IF filter \in TagFilters
      THEN SelectSeq(searched, LAMBDA x :
             x.tags # Undefined /\ SeqIncludes(TagsOf(x), tagOfFilter(filter)))
      ELSE CASE filter = "favorites" -> SelectSeq(searched, LAMBDA x : x.favorite)
             [] filter = "recent" -> SortRecent(searched)
             [] filter = "oldest" -> SortOldest(searched)
             [] filter = "urls" -> SelectSeq(searched, LAMBDA x : typeOf(x) = "url")
             [] filter = "code" -> SelectSeq(searched, LAMBDA x : typeOf(x) = "code")
             [] OTHER -> searched

(* A search that compares the text as typed *)
filterHistory_CaseSensitive(h, query, filter) ==
  LET searched ==
        IF query # <<>> THEN SelectSeq(h, LAMBDA x : Includes(x.text, query))
        ELSE h
      categorized ==
        IF filter \in TagFilters
        THEN SelectSeq(searched, LAMBDA x :
               x.tags # Undefined /\ SeqIncludes(TagsOf(x), tagOfFilter(filter)))
        ELSE CASE filter = "favorites" -> SelectSeq(searched, LAMBDA x : x.favorite)
               [] filter = "recent" -> SortRecent(searched)
               [] filter = "oldest" -> SortOldest(searched)
               [] filter = "urls" -> SelectSeq(searched, LAMBDA x : typeOf(x) = "url")
               [] filter = "code" -> SelectSeq(searched, LAMBDA x : typeOf(x) = "code")
               [] OTHER -> searched
  IN  IF filter # "recent" /\ filter # "oldest"
      THEN SortRecent(categorized)
      ELSE categorized

filterHistory(h, query, filter) ==
  LET searched ==
        IF query # <<>>
        THEN SelectSeq(h, LAMBDA x : Includes(ToLowerCase(x.text), ToLowerCase(query)))
        ELSE h
      categorized ==
        IF filter \in TagFilters
        THEN SelectSeq(searched, LAMBDA x :
               x.tags # Undefined /\ SeqIncludes(TagsOf(x), tagOfFilter(filter)))
        ELSE CASE filter = "favorites" -> SelectSeq(searched, LAMBDA x : x.favorite)
               [] filter = "recent" -> SortRecent(searched)
               [] filter = "oldest" -> SortOldest(searched)
               [] filter = "urls" -> SelectSeq(searched, LAMBDA x : typeOf(x) = "url")
               [] filter = "code" -> SelectSeq(searched, LAMBDA x : typeOf(x) = "code")
               [] OTHER -> searched
  IN  IF filter # "recent" /\ filter # "oldest"
      THEN SortRecent(categorized)
      ELSE categorized

(* filterHistory statement by statement, over the arrays it touches: 'input'
   is the array passed in, 'fresh' the latest array the function created, and
   filtered names the array the local variable refers to *)

(* An assignment of the argument itself to the local variable *)
spread_SameArray(h) == [input |-> h, fresh |-> <<>>, filtered |-> "input"]

(* let filtered = [...history] *)
spread(h) == [input |-> h, fresh |-> h, filtered |-> "fresh"]

RECURSIVE KeepWhere(_, _)
KeepWhere(s, keeps) ==
  IF s = <<>> THEN <<>>
  ELSE (IF Head(keeps) THEN <<Head(s)>> ELSE <<>>)
         \o KeepWhere(Tail(s), Tail(keeps))

(* filtered = filtered.filter(...): a new array *)
arrayFilter(a, keeps) ==
  [a EXCEPT !.fresh = KeepWhere(a[a.filtered], keeps), !.filtered = "fresh"]

(* filtered.sort(...): in place *)
arraySort(a, order) ==
  [a EXCEPT ![a.filtered] = IF order = "oldest" THEN SortOldest(@)
                            ELSE SortRecent(@)]

filterHistoryArrays(h, query, filter) ==
  LET a0 == spread(h)
      s0 == a0[a0.filtered]
      a1 == IF query # <<>>
            THEN arrayFilter(a0, [i \in 1..Len(s0) |->
                   Includes(ToLowerCase(s0[i].text), ToLowerCase(query))])
            ELSE a0
      s1 == a1[a1.filtered]
      a2 == IF filter \in TagFilters
            THEN arrayFilter(a1, [i \in 1..Len(s1) |->
                   /\ s1[i].tags # Undefined
                   /\ SeqIncludes(TagsOf(s1[i]), tagOfFilter(filter))])
            ELSE CASE filter = "favorites" ->
                        arrayFilter(a1, [i \in 1..Len(s1) |-> s1[i].favorite])
                   [] filter = "recent" -> arraySort(a1, "recent")
                   [] filter = "oldest" -> arraySort(a1, "oldest")
                   [] filter = "urls" ->
                        arrayFilter(a1, [i \in 1..Len(s1) |-> typeOf(s1[i]) = "url"])
                   [] filter = "code" ->
                        arrayFilter(a1, [i \in 1..Len(s1) |-> typeOf(s1[i]) = "code"])
                   [] OTHER -> a1
      a3 == IF filter # "recent" /\ filter # "oldest"
            THEN arraySort(a2, "recent")
            ELSE a2
  IN  [input |-> a3.input, returned |-> a3.filtered, ret |-> a3[a3.filtered]]

(* popup.js loadClipboardHistory: the entries with their type filled in *)
loadClipboardHistory(stored) ==
  LET h == getClipboardHistory(stored)
  IN  [i \in 1..Len(h) |-> [h[i] EXCEPT !.type = typeOf(h[i])]]

----------------------------------------------------------------------------
(* What the popup reads from an import file: JSON.parse(text), an array *)

oldA == Entry(TextA, OldStamp, FALSE, FALSE, "", Undefined)

oldFavoriteB == Entry(TextB, OldStamp, TRUE, FALSE, "", Undefined)

oldPinnedC == Entry(TextC, OldStamp, FALSE, TRUE, "code", Undefined)

(* timestamp missing *)
freshFavoriteA == Entry(TextA, 0, TRUE, FALSE, "", Undefined)

blank == Entry(<<" ">>, 0, FALSE, FALSE, "", Undefined)

ImportCandidates == {oldA, oldFavoriteB, oldPinnedC, freshFavoriteA, blank}

ImportFiles ==
  {<<c>> : c \in ImportCandidates}
    \cup {<<oldA, oldFavoriteB>>, <<oldPinnedC, freshFavoriteA>>,
          <<blank, oldFavoriteB>>}


SettingsUpdates ==
  {[maxItems |-> m] : m \in 1..MaxLimit}
    \cup {[autoDelete |-> b] : b \in BOOLEAN}
    \cup {[autoDeleteDays |-> d] : d \in {30, 31}}
    \cup {[maxItems |-> m, autoDelete |-> TRUE] : m \in 1..MaxLimit}

(* The timestamps a gesture can carry: those of the stored entries, and one
   that matches nothing (a stale list item) *)
Stamps == {e.timestamp : e \in Range(history)} \cup {NoSuchStamp}

----------------------------------------------------------------------------
(* The state machine *)

NoItem == Entry(<<>>, 0, FALSE, FALSE, "", Undefined)

(* A completed call: the function, its caller, what it returned, the branch
   it took, and its arguments (the timestamp, the item, the two flags of
   clearClipboardHistory) *)
Call(op, via, ret, path, ts, item, kf, kp) ==
  [op |-> op, via |-> via, ret |-> ret, path |-> path, ts |-> ts,
   item |-> item, kf |-> kf, kp |-> kp]

Init ==
  /\ history = <<>>
  /\ settings = DEFAULT_SETTINGS
  /\ globalTags = <<>>
  /\ tagColors = <<>>
  /\ freedColors = <<>>
  /\ jsonFile = <<>>
  /\ asyncOps = {}
  /\ confirmHandlers = <<>>
  /\ now = StartNow
  /\ pending = <<>>
  /\ searchQuery = <<>>
  /\ currentFilter = ""
  /\ filteredHistory = <<>>
  /\ windowHistory = <<>>
  /\ last = Call("init", "", TRUE, "", 0, NoItem, FALSE, FALSE)

(* A user gesture is handled when no import is running, and the clock has
   advanced when the next one arrives *)
Gesture ==
  /\ pending = <<>>
  /\ now < MaxNow
  /\ now' = now + Granule

(* popup.js loadClipboardHistory with the store holding stored: the list is
   read, kept in window.clipboardHistory and rendered *)
reload(stored) ==
  /\ windowHistory' =
       filterHistoryArrays(loadClipboardHistory(stored), searchQuery,
                           currentFilter).input
  /\ filteredHistory' =
       filterHistory(loadClipboardHistory(stored), searchQuery, currentFilter)

(* popup.js handleSaveClipboard, with the clipboard holding clip; the list is
   reloaded when the save succeeded *)
HandleSaveClipboard ==
  /\ Gesture
  /\ \E clip \in ClipTexts :
       IF clip = <<>> \/ Trim(clip) = <<>>
       THEN /\ last' = Call("saveClipboard", "clipboard", FALSE, "empty", 0,
                            NoItem, FALSE, FALSE)
            /\ UNCHANGED <<history, windowHistory, filteredHistory>>
       ELSE IF Len(clip) > MaxTextLength
       THEN /\ last' = Call("saveClipboard", "clipboard", FALSE, "long", 0,
                            NoItem, FALSE, FALSE)
            /\ UNCHANGED <<history, windowHistory, filteredHistory>>
       ELSE LET newItem == Entry(Trim(clip), DateNow, FALSE, FALSE,
                                 detectContentType(clip), Undefined)
                r == saveClipboardItem(history, settings, DateNow, newItem)
            IN  /\ history' = r.history
                /\ last' = Call("save", "clipboard", r.ret, r.path,
                                newItem.timestamp, newItem, FALSE, FALSE)
                /\ IF r.ret THEN reload(r.history)
                   ELSE UNCHANGED <<windowHistory, filteredHistory>>
  /\ UNCHANGED <<asyncVars, searchQuery, currentFilter, settings, globalTags, tagColors, freedColors,
                 pending>>

(* popup.js handleImportClipboard, up to the loop over validItems; the list
   is reloaded when the loop has ended *)
importFileValid(c) == c.text # <<>> /\ Trim(c.text) # <<>>

ImportStart ==
  /\ Gesture
  /\ \E importedItems \in ImportFiles :
       /\ pending' = SelectSeq(importedItems, importFileValid)
       /\ last' = Call("import", "import", TRUE, "start", 0, NoItem, FALSE, FALSE)
       /\ IF SelectSeq(importedItems, importFileValid) = <<>> THEN reload(history)
          ELSE UNCHANGED <<windowHistory, filteredHistory>>
  /\ UNCHANGED <<asyncVars, searchQuery, currentFilter, history, settings, globalTags,
                 tagColors, freedColors>>

(* One turn of the loop: the required fields are filled in and the item is
   handed to saveClipboardItem as it is *)
ImportStep ==
  /\ pending # <<>>
  /\ \E rnd \in MathRandom :
       LET c == Head(pending)
           item == [c EXCEPT
                      !.timestamp = IF c.timestamp = 0 THEN DateNow + rnd
                                    ELSE c.timestamp,
                      !.type = IF c.type # "" THEN c.type
                               ELSE detectContentType(c.text)]
           r == saveClipboardItem(history, settings, DateNow, item)
       IN  /\ history' = r.history
           /\ last' = Call("save", "import", r.ret, r.path, item.timestamp,
                           item, FALSE, FALSE)
           /\ IF Tail(pending) = <<>> THEN reload(r.history)
              ELSE UNCHANGED <<windowHistory, filteredHistory>>
  /\ pending' = Tail(pending)
  /\ \E d \in {0, Granule} : now + d <= MaxNow /\ now' = now + d
  /\ UNCHANGED <<asyncVars, searchQuery, currentFilter, settings, globalTags, tagColors, freedColors>>

ImportHistory ==
  /\ Gesture
  /\ \E importedItems \in ImportFiles :
       LET r == importHistory(history, importedItems, DateNow)
       IN  /\ history' = r.history
           /\ last' = Call("importHistory", "", r.ret, r.path, 0, NoItem,
                           FALSE, FALSE)
  /\ UNCHANGED <<asyncVars, viewVars, settings, globalTags, tagColors, freedColors, pending>>

DeleteClipboardItem ==
  /\ Gesture
  /\ \E ts \in Stamps :
       LET r == deleteClipboardItem(history, ts)
       IN  /\ history' = r.history
           /\ last' = Call("delete", "", r.ret, r.path, ts, NoItem, FALSE, FALSE)
  /\ UNCHANGED <<asyncVars, viewVars, settings, globalTags, tagColors, freedColors, pending>>

ClearClipboardHistory ==
  /\ Gesture
  /\ \E kf \in BOOLEAN, kp \in BOOLEAN :
       LET r == clearClipboardHistory(history, kf, kp)
       IN  /\ history' = r.history
           /\ last' = Call("clear", "", r.ret, r.path, 0, NoItem, kf, kp)
  /\ UNCHANGED <<asyncVars, viewVars, settings, globalTags, tagColors, freedColors, pending>>

ToggleFavorite ==
  /\ Gesture
  /\ \E ts \in Stamps :
       LET r == toggleFavorite(history, ts)
       IN  /\ history' = r.history
           /\ last' = Call("toggleFavorite", "", r.ret, r.path, ts, NoItem,
                           FALSE, FALSE)
  /\ UNCHANGED <<asyncVars, viewVars, settings, globalTags, tagColors, freedColors, pending>>

TogglePin ==
  /\ Gesture
  /\ \E ts \in Stamps :
       LET r == togglePin(history, ts)
       IN  /\ history' = r.history
           /\ last' = Call("togglePin", "", r.ret, r.path, ts, NoItem,
                           FALSE, FALSE)
  /\ UNCHANGED <<asyncVars, viewVars, settings, globalTags, tagColors, freedColors, pending>>

UpdateSettings ==
  /\ Gesture
  /\ \E u \in SettingsUpdates :
       /\ settings' = updateSettings(settings, u)
       /\ last' = Call("updateSettings", "", TRUE, "", 0, NoItem, FALSE, FALSE)
  /\ UNCHANGED <<asyncVars, viewVars, history, globalTags, tagColors, freedColors, pending>>

TagNames == {"x", "y"}

TagLists == {<<"x">>, <<"y">>, <<"x", "y">>, <<"x", "x">>}

(* The tags argument of a call, as the item of the completed call *)
TagArgs(tags) == [NoItem EXCEPT !.tags = Some(tags)]

AddTagsToItem ==
  /\ Gesture
  /\ \E ts \in Stamps, tl \in TagLists :
       LET r == addTagsToItem(history, ts, tl)
           g == updateGlobalTags(globalTags, tagColors, r.newTags)
       IN  /\ history' = r.history
           /\ globalTags' = IF r.ret THEN g.tags ELSE globalTags
           /\ tagColors' = IF r.ret THEN g.colors ELSE tagColors
           /\ last' = Call("addTags", "", r.ret, r.path, ts, TagArgs(tl),
                           FALSE, FALSE)
  /\ UNCHANGED <<asyncVars, viewVars, settings, pending, freedColors>>

RemoveTagFromItem ==
  /\ Gesture
  /\ \E ts \in Stamps, tag \in TagNames :
       LET r == removeTagFromItem(history, tag, ts)
       IN  /\ history' = r.history
           /\ last' = Call("removeTag", "", r.ret, r.path, ts,
                           TagArgs(<<tag>>), FALSE, FALSE)
  /\ UNCHANGED <<asyncVars, viewVars, settings, globalTags, tagColors, freedColors, pending>>

Next ==
  \/ HandleSaveClipboard
  \/ ImportStart
  \/ ImportStep
  \/ ImportHistory
  \/ DeleteClipboardItem
  \/ ClearClipboardHistory
  \/ ToggleFavorite
  \/ TogglePin
  \/ UpdateSettings

Spec == Init /\ [][Next]_vars

(* The store with the tag operations of the item list *)
NextTags ==
  \/ Next
  \/ AddTagsToItem
  \/ RemoveTagFromItem

SpecTags == Init /\ [][NextTags]_vars

----------------------------------------------------------------------------
(* The operations with one storage call failing. The fault is one of the
   calls the operation makes; last.via holds which kind of call failed, and
   last.path is "thrown" when the operation rejected instead of returning. *)

(* last.via of a call under the fault f: the call that failed, and whether
   it was on the key 'clipboardHistory' *)
faultName(f) ==
  IF f[2] = "clipboardHistory" THEN f[1]
  ELSE IF f[1] = "get" THEN "get other" ELSE "set other"

FaultNames == {"get", "set", "get other", "set other"}

HistoryFaults == {<<"get", "clipboardHistory">>, <<"set", "clipboardHistory">>}

RegistryFaults ==
  {<<c, k>> : c \in {"get", "set"}, k \in {"tags", "tagColors"}}

SaveClipboardItemFault ==
  /\ Gesture
  /\ \E f \in HistoryFaults \cup {<<"get", "settings">>}, text \in Texts :
       LET item == Entry(text, DateNow, FALSE, FALSE, detectContentType(text),
                         Undefined)
           r == saveClipboardItem(readHistory(f, history),
                                  readSettings(f, settings), DateNow, item)
           writes == r.path # "limit"
           o == caught(f, history, r, writes)
       IN  /\ setFails(f, "clipboardHistory") => writes
           /\ history' = o.history
           /\ last' = Call("save", faultName(f), o.ret, o.path, item.timestamp, item,
                           FALSE, FALSE)
  /\ UNCHANGED <<asyncVars, viewVars, settings, globalTags, tagColors, freedColors, pending>>

DeleteClipboardItemFault ==
  /\ Gesture
  /\ \E f \in HistoryFaults, ts \in Stamps :
       LET r == deleteClipboardItem(readHistory(f, history), ts)
           o == caught(f, history, r, TRUE)
       IN  /\ history' = o.history
           /\ last' = Call("delete", faultName(f), o.ret, o.path, ts, NoItem,
                           FALSE, FALSE)
  /\ UNCHANGED <<asyncVars, viewVars, settings, globalTags, tagColors, freedColors, pending>>

ClearClipboardHistoryFault ==
  /\ Gesture
  /\ \E f \in HistoryFaults, kf \in BOOLEAN, kp \in BOOLEAN :
       LET r == clearClipboardHistory(readHistory(f, history), kf, kp)
           o == caught(f, history, r, TRUE)
       IN  /\ getFails(f, "clipboardHistory") => (kf \/ kp)
           /\ history' = o.history
           /\ last' = Call("clear", faultName(f), o.ret, o.path, 0, NoItem, kf, kp)
  /\ UNCHANGED <<asyncVars, viewVars, settings, globalTags, tagColors, freedColors, pending>>

ToggleFavoriteFault ==
  /\ Gesture
  /\ \E f \in HistoryFaults, ts \in Stamps :
       LET r == toggleFavorite(readHistory(f, history), ts)
           o == caught(f, history, r, r.path = "found")
       IN  /\ setFails(f, "clipboardHistory") => r.path = "found"
           /\ history' = o.history
           /\ last' = Call("toggleFavorite", faultName(f), o.ret, o.path, ts, NoItem,
                           FALSE, FALSE)
  /\ UNCHANGED <<asyncVars, viewVars, settings, globalTags, tagColors, freedColors, pending>>

TogglePinFault ==
  /\ Gesture
  /\ \E f \in HistoryFaults, ts \in Stamps :
       LET r == togglePin(readHistory(f, history), ts)
           o == caught(f, history, r, r.path = "found")
       IN  /\ setFails(f, "clipboardHistory") => r.path = "found"
           /\ history' = o.history
           /\ last' = Call("togglePin", faultName(f), o.ret, o.path, ts, NoItem,
                           FALSE, FALSE)
  /\ UNCHANGED <<asyncVars, viewVars, settings, globalTags, tagColors, freedColors, pending>>

UpdateSettingsFault ==
  /\ Gesture
  /\ \E f \in {<<"get", "settings">>, <<"set", "settings">>},
        u \in SettingsUpdates :
       /\ settings' = IF setFails(f, "settings") THEN settings
                      ELSE updateSettings(readSettings(f, settings), u)
       /\ last' = Call("updateSettings", faultName(f), ~setFails(f, "settings"),
                       IF setFails(f, "settings") THEN "caught" ELSE "",
                       0, NoItem, FALSE, FALSE)
  /\ UNCHANGED <<asyncVars, viewVars, history, globalTags, tagColors, freedColors, pending>>

AddTagsToItemFault ==
  /\ Gesture
  /\ \E f \in HistoryFaults \cup RegistryFaults, ts \in Stamps, tl \in TagLists :
       LET r == addTagsToItem(readHistory(f, history), ts, tl)
           found == r.path = "found"
           g == updateGlobalTagsFaulty(f, globalTags, tagColors, r.newTags)
           o == caught(f, history, [history |-> r.history, ret |-> r.ret,
                                    path |-> r.path], found)
       IN  /\ ~getFails(f, "clipboardHistory") => found
           /\ history' = o.history
           /\ globalTags' = IF found THEN g.tags ELSE globalTags
           /\ tagColors' = IF found THEN g.colors ELSE tagColors
           /\ last' = Call("addTags", faultName(f), o.ret, o.path, ts,
                           TagArgs(tl), FALSE, FALSE)
  /\ UNCHANGED <<asyncVars, viewVars, settings, pending, freedColors>>

RemoveTagFromItemFault ==
  /\ Gesture
  /\ \E f \in HistoryFaults, ts \in Stamps, tag \in TagNames :
       LET r == removeTagFromItem(readHistory(f, history), tag, ts)
           o == caught(f, history, r, r.path = "found")
       IN  /\ setFails(f, "clipboardHistory") => r.path = "found"
           /\ history' = o.history
           /\ last' = Call("removeTag", faultName(f), o.ret, o.path, ts,
                           TagArgs(<<tag>>), FALSE, FALSE)
  /\ UNCHANGED <<asyncVars, viewVars, settings, globalTags, tagColors, freedColors, pending>>

(* The colors that removeTag has deleted so far: before is tagColors when
   removeTag(tag) starts and after is what it leaves *)
freed(known, before, after, tag) ==
  IF tag \in DOMAIN before /\ tag \notin DOMAIN after
  THEN [k \in DOMAIN known \cup {tag} |->
          IF k = tag THEN before[tag] ELSE known[k]]
  ELSE known

(* popup.js removeTag from the delete button of a registered tag *)
RemoveTagFault ==
  /\ Gesture
  /\ \E f \in HistoryFaults \cup RegistryFaults, tag \in TagNames :
       LET o == removeTag(f, history, globalTags, tagColors, tag)
       IN  /\ SeqIncludes(globalTags, tag)
           /\ history' = o.history
           /\ globalTags' = o.tags
           /\ tagColors' = o.colors
           /\ freedColors' = freed(freedColors, tagColors, o.colors, tag)
           /\ last' = Call("removeTagGlobally", faultName(f), ~o.thrown,
                           IF o.thrown THEN "thrown" ELSE "done", 0,
                           TagArgs(<<tag>>), FALSE, FALSE)
  /\ UNCHANGED <<asyncVars, viewVars, settings, pending>>

NextFaults ==
  \/ ImportHistory
  \/ AddTagsToItem
  \/ SaveClipboardItemFault
  \/ DeleteClipboardItemFault
  \/ ClearClipboardHistoryFault
  \/ ToggleFavoriteFault
  \/ TogglePinFault
  \/ UpdateSettingsFault
  \/ AddTagsToItemFault
  \/ RemoveTagFromItemFault
  \/ RemoveTagFault

SpecFaults == Init /\ [][NextFaults]_vars

----------------------------------------------------------------------------
(* The tag registry: the tag operations over stores and registries that
   earlier sessions have filled *)

plainA == Entry(TextA, StartNow - 2 * Granule, FALSE, FALSE, "text", Undefined)

plainB == Entry(TextB, StartNow - Granule, TRUE, FALSE, "text", Undefined)

RegistryStores == {<<>>, <<plainA>>, <<plainB, plainA>>}

(* Ten tags that were added one after the other and are on no entry any more
   (removeTagFromItem leaves the registry alone) *)
TenTags == <<"t0", "t1", "t2", "t3", "t4", "t5", "t6", "t7", "t8", "t9">>

Registries ==
  {[tags |-> <<>>, colors |-> <<>>],
   [tags |-> TenTags, colors |-> assignColors(<<>>, TenTags)]}

(* An item of a file that exportHistory('json') wrote elsewhere: it carries
   its tags *)
taggedC == Entry(TextC, OldStamp, FALSE, FALSE, "", Some(<<"x">>))

(* The tags whose delete button is clicked *)
RemovableTags == TagNames \cup {"t0"}

InitRegistry ==
  /\ history \in RegistryStores
  /\ settings = DEFAULT_SETTINGS
  /\ \E registry \in Registries :
       /\ globalTags = registry.tags
       /\ tagColors = registry.colors
  /\ freedColors = <<>>
  /\ jsonFile = <<>>
  /\ asyncOps = {}
  /\ confirmHandlers = <<>>
  /\ now = StartNow
  /\ pending = <<>>
  /\ searchQuery = <<>>
  /\ currentFilter = ""
  /\ windowHistory =
       filterHistoryArrays(loadClipboardHistory(history), <<>>, "").input
  /\ filteredHistory = filterHistory(loadClipboardHistory(history), <<>>, "")
  /\ last = Call("init", "", TRUE, "", 0, NoItem, FALSE, FALSE)

(* popup.js handleImportClipboard with a file of one tagged item *)
ImportTaggedFile ==
  /\ Gesture
  /\ pending' = SelectSeq(<<taggedC>>, importFileValid)
  /\ last' = Call("import", "import", TRUE, "start", 0, NoItem, FALSE, FALSE)
  /\ UNCHANGED <<asyncVars, viewVars, history, settings, globalTags, tagColors,
                 freedColors>>

(* popup.js removeTag from the delete button of a registered tag *)
RemoveTag ==
  /\ Gesture
  /\ \E tag \in RemovableTags :
       LET o == removeTag(NoFault, history, globalTags, tagColors, tag)
       IN  /\ SeqIncludes(globalTags, tag)
           /\ history' = o.history
           /\ globalTags' = o.tags
           /\ tagColors' = o.colors
           /\ freedColors' = freed(freedColors, tagColors, o.colors, tag)
           /\ last' = Call("removeTagGlobally", "", ~o.thrown, "done", 0,
                           TagArgs(<<tag>>), FALSE, FALSE)
  /\ UNCHANGED <<asyncVars, viewVars, settings, pending>>

NextRegistry ==
  \/ ImportTaggedFile
  \/ ImportStep
  \/ AddTagsToItem
  \/ RemoveTagFromItem
  \/ RemoveTag

SpecRegistry == InitRegistry /\ [][NextRegistry]_vars

----------------------------------------------------------------------------
(* The round trip: the JSON export of one store is imported into an empty
   store whose maxItems is at least the number of exported entries *)

tripExpired == Entry(TextA, OldStamp, FALSE, FALSE, "text", Undefined)

tripFavorite == Entry(TextB, OldStamp, TRUE, FALSE, "text", Some(<<"x">>))

tripPinned == Entry(TextC, StartNow - Granule, FALSE, TRUE, "text", Undefined)

tripCode == Entry(<<"{">>, StartNow - 2 * Granule, FALSE, FALSE, "code",
                  Some(<<>>))

TripEntries == {tripExpired, tripFavorite, tripPinned, tripCode}

(* The stores of at most three of these entries, in canonical order *)
TripStores ==
  {<<>>}
    \cup {<<a>> : a \in TripEntries}
    \cup {SortRecent(s) : s \in
            {p \in {<<a, b>> : a \in TripEntries, b \in TripEntries} :
               p[1] # p[2]}}
    \cup {SortRecent(s) : s \in
            {p \in {<<a, b, c>> : a \in TripEntries, b \in TripEntries,
                                  c \in TripEntries} :
               p[1] # p[2] /\ p[1] # p[3] /\ p[2] # p[3]}}

TripSettings ==
  {[DEFAULT_SETTINGS EXCEPT !.maxItems = m, !.autoDelete = b] :
     m \in {3, DEFAULT_SETTINGS.maxItems}, b \in BOOLEAN}

InitTrip ==
  /\ history = <<>>
  /\ settings \in TripSettings
  /\ globalTags = <<>>
  /\ tagColors = <<>>
  /\ freedColors = <<>>
  /\ \E stored \in TripStores : jsonFile = exportHistory(stored)
  /\ asyncOps = {}
  /\ confirmHandlers = <<>>
  /\ now = StartNow
  /\ pending = <<>>
  /\ searchQuery = <<>>
  /\ currentFilter = ""
  /\ filteredHistory = <<>>
  /\ windowHistory = <<>>
  /\ last = Call("init", "", TRUE, "", 0, NoItem, FALSE, FALSE)

(* popup.js handleImportClipboard with the exported file, the store empty *)
ImportExportedFile ==
  /\ Gesture
  /\ history = <<>>
  /\ LET validItems == SelectSeq(JSONparse(jsonFile), importFileValid)
     IN  /\ pending' = validItems
         /\ IF validItems = <<>> THEN reload(history)
            ELSE UNCHANGED <<windowHistory, filteredHistory>>
  /\ last' = Call("import", "import", TRUE, "start", 0, NoItem, FALSE, FALSE)
  /\ UNCHANGED <<asyncVars, searchQuery, currentFilter, history, settings,
                 globalTags, tagColors, freedColors>>

(* Storage.importHistory(data, 'json') with the exported file, the store
   empty *)
ImportHistoryExported ==
  /\ Gesture
  /\ history = <<>>
  /\ LET r == importHistory(history, JSONparse(jsonFile), DateNow)
     IN  /\ history' = r.history
         /\ last' = Call("importHistory", "", r.ret, r.path, 0, NoItem,
                         FALSE, FALSE)
  /\ UNCHANGED <<asyncVars, viewVars, settings, globalTags, tagColors,
                 freedColors, pending>>

NextTrip ==
  \/ ImportExportedFile
  \/ ImportStep
  \/ ImportHistoryExported

SpecTrip == InitTrip /\ [][NextTrip]_vars

----------------------------------------------------------------------------
(* The import of a hand-written JSON array: its elements need not be entries *)

(* item.text on null throws a TypeError *)
textThrows(v) == v = JSONnull

(* popup.js: item.text && typeof item.text === 'string' && item.text.trim() *)
popupValid(v) ==
  /\ "text" \in DOMAIN v
  /\ typeofString(v.text)
  /\ v.text.string # <<>>
  /\ Trim(v.text.string) # <<>>

(* storage.js: item.text && typeof item.text === 'string' *)
storageValid(v) ==
  /\ "text" \in DOMAIN v
  /\ typeofString(v.text)
  /\ v.text.string # <<>>

goodA == JSONobject(Entry(TextA, StartNow - 2 * Granule, FALSE, FALSE, "text",
                          Undefined))

goodB == JSONobject(Entry(TextB, StartNow - Granule, TRUE, FALSE, "", Undefined))

textMissing == [timestamp |-> StartNow - Granule, favorite |-> FALSE]

textEmpty == [text |-> JSONstring(<<>>), timestamp |-> StartNow - Granule]

textNumber == [text |-> JSONnumber(7), timestamp |-> StartNow - Granule]

BatchElements ==
  {goodA, goodB, textMissing, textEmpty, textNumber, JSONnumber(7), JSONnull}

BatchFiles ==
  {<<v>> : v \in BatchElements}
    \cup {<<v, w>> : v \in BatchElements, w \in BatchElements}

InitBatch ==
  /\ history = <<>>
  /\ settings = DEFAULT_SETTINGS
  /\ globalTags = <<>>
  /\ tagColors = <<>>
  /\ freedColors = <<>>
  /\ jsonFile \in BatchFiles
  /\ asyncOps = {}
  /\ confirmHandlers = <<>>
  /\ now = StartNow
  /\ pending = <<>>
  /\ searchQuery = <<>>
  /\ currentFilter = ""
  /\ filteredHistory = <<>>
  /\ windowHistory = <<>>
  /\ last = Call("init", "", TRUE, "", 0, NoItem, FALSE, FALSE)

(* popup.js handleImportClipboard up to the loop: a TypeError in the filter is
   caught by the handler's catch, which shows 'Failed to import file' *)
ImportJsonFile ==
  /\ Gesture
  /\ history = <<>>
  /\ IF \E i \in 1..Len(jsonFile) : textThrows(jsonFile[i])
     THEN /\ pending' = <<>>
          /\ last' = Call("import", "import", FALSE, "thrown", 0, NoItem,
                          FALSE, FALSE)
          /\ UNCHANGED <<windowHistory, filteredHistory>>
     ELSE LET validItems == JSONparse(SelectSeq(jsonFile, popupValid))
          IN  /\ pending' = validItems
              /\ last' = Call("import", "import", TRUE,
                              IF validItems = <<>> THEN "none" ELSE "start",
                              0, NoItem, FALSE, FALSE)
              /\ IF validItems = <<>> THEN reload(history)
                 ELSE UNCHANGED <<windowHistory, filteredHistory>>
  /\ UNCHANGED <<asyncVars, searchQuery, currentFilter, history, settings,
                 globalTags, tagColors, freedColors>>

(* Storage.importHistory(data, 'json'): a TypeError in the filter is caught
   and the call returns false *)
ImportHistoryJson ==
  /\ Gesture
  /\ history = <<>>
  /\ IF \E i \in 1..Len(jsonFile) : textThrows(jsonFile[i])
     THEN /\ last' = Call("importHistory", "", FALSE, "thrown", 0, NoItem,
                          FALSE, FALSE)
          /\ UNCHANGED history
     ELSE LET r == importHistory(history,
                                 JSONparse(SelectSeq(jsonFile, storageValid)),
                                 DateNow)
          IN  /\ history' = r.history
              /\ last' = Call("importHistory", "", r.ret, r.path, 0, NoItem,
                              FALSE, FALSE)
  /\ UNCHANGED <<asyncVars, viewVars, settings, globalTags, tagColors,
                 freedColors, pending>>

NextBatch ==
  \/ ImportJsonFile
  \/ ImportStep
  \/ ImportHistoryJson

SpecBatch == InitBatch /\ [][NextBatch]_vars

----------------------------------------------------------------------------
(* Store operations as they run: every operation of Storage awaits
   chrome.storage.local.get, works on the copy it got, and awaits
   chrome.storage.local.set. A handler that awaits gives way to the handler of
   the next event; a second popup, or the background page, is another
   instance over the same chrome.storage.local. *)

MaxOps == 2

Popups == {1, 2}

asyncA == Entry(TextA, StartNow - 2 * Granule, FALSE, FALSE, "text", Undefined)

asyncB == Entry(TextB, StartNow - Granule, FALSE, FALSE, "text", Undefined)

AsyncStores == {<<asyncB, asyncA>>}

(* The timestamps of the list items the instances rendered when they opened *)
AsyncStamps == {asyncA.timestamp, asyncB.timestamp}

AsyncOpNames == {"toggleFavorite", "togglePin", "delete", "addTags", "save"}

(* The operation as started: nothing read yet *)
AsyncOp(id, popup, op, ts, item) ==
  [id |-> id, popup |-> popup, op |-> op, ts |-> ts, item |-> item,
   pc |-> "get", local |-> <<>>, ret |-> FALSE, path |-> ""]

(* What the operation computes from the copy it read *)
asyncResult(o, stgs, clock) ==
  CASE o.op = "toggleFavorite" -> toggleFavorite(o.local, o.ts)
    [] o.op = "togglePin" -> togglePin(o.local, o.ts)
    [] o.op = "delete" -> deleteClipboardItem(o.local, o.ts)
    [] o.op = "addTags" ->
         LET r == addTagsToItem(o.local, o.ts, TagsOf(o.item))
         IN  Result(r.history, r.ret, r.path)
    [] OTHER -> saveClipboardItem(o.local, stgs, clock, o.item)

(* Whether the operation reaches its Storage.set *)
asyncWrites(o, r) ==
  CASE o.op = "delete" -> TRUE
    [] o.op = "save" -> r.ret
    [] OTHER -> r.path = "found"

(* The array handed to Storage.set, were the change applied to what the store
   holds at the time of the write *)
asyncWritten_Reread(o, r, current) ==
  asyncResult([o EXCEPT !.local = getClipboardHistory(current)],
              settings, DateNow).history

(* The array handed to Storage.set: computed from the copy read earlier,
   whatever the store holds by now *)
asyncWritten(o, r, current) == r.history

InitAsync ==
  /\ history \in AsyncStores
  /\ settings = DEFAULT_SETTINGS
  /\ globalTags = <<>>
  /\ tagColors = <<>>
  /\ freedColors = <<>>
  /\ jsonFile = <<>>
  /\ asyncOps = {}
  /\ confirmHandlers = <<>>
  /\ now = StartNow
  /\ pending = <<>>
  /\ searchQuery = <<>>
  /\ currentFilter = ""
  /\ filteredHistory = <<>>
  /\ windowHistory = <<>>
  /\ last = Call("init", "", TRUE, "", 0, NoItem, FALSE, FALSE)

(* A gesture in one of the instances calls an operation of Storage *)
AsyncStart ==
  /\ Cardinality(asyncOps) < MaxOps
  /\ \E popup \in Popups, op \in AsyncOpNames, stamp \in AsyncStamps :
       asyncOps' = asyncOps \cup
         {AsyncOp(Cardinality(asyncOps) + 1, popup, op,
                  IF op = "save" THEN DateNow ELSE stamp,
                  CASE op = "save" ->
                         Entry(TextC, DateNow, FALSE, FALSE, "text", Undefined)
                    [] op = "addTags" -> TagArgs(<<"x">>)
                    [] OTHER -> NoItem)}
  /\ UNCHANGED <<history, settings, globalTags, tagColors, freedColors, now,
                 pending, viewVars, jsonFile, confirmHandlers, last>>

(* await this.getClipboardHistory() returns *)
AsyncGet ==
  /\ \E o \in asyncOps :
       /\ o.pc = "get"
       /\ asyncOps' = (asyncOps \ {o}) \cup
            {[o EXCEPT !.pc = "set", !.local = getClipboardHistory(history)]}
  /\ UNCHANGED <<history, settings, globalTags, tagColors, freedColors, now,
                 pending, viewVars, jsonFile, confirmHandlers, last>>

(* The rest of the operation: the change, await this.set(...), the return.
   addTagsToItem awaits updateGlobalTags before its set; that call is taken
   as one step with it. *)
AsyncSet ==
  /\ \E o \in asyncOps :
       LET r == asyncResult(o, settings, DateNow)
           g == updateGlobalTags(globalTags, tagColors,
                                 IF o.op = "addTags" /\ r.ret
                                 THEN addTagsToItem(o.local, o.ts,
                                                    TagsOf(o.item)).newTags
                                 ELSE <<>>)
       IN  /\ o.pc = "set"
           /\ history' = IF asyncWrites(o, r)
                         THEN asyncWritten(o, r, history)
                         ELSE history
           /\ globalTags' = g.tags
           /\ tagColors' = g.colors
           /\ asyncOps' = (asyncOps \ {o}) \cup
                {[o EXCEPT !.pc = "done", !.ret = r.ret, !.path = r.path]}
           /\ last' = Call(o.op, "async", r.ret, r.path, o.ts, o.item,
                           FALSE, FALSE)
  /\ UNCHANGED <<settings, freedColors, now, pending, viewVars, jsonFile,
                 confirmHandlers>>

NextAsync ==
  \/ AsyncStart
  \/ AsyncGet
  \/ AsyncSet

SpecAsync == InitAsync /\ [][NextAsync]_vars

----------------------------------------------------------------------------
(* The list view over a store that earlier sessions have filled *)

ViewOld == StartNow - 2 * Granule

ViewNew == StartNow - Granule

viewA == Entry(TextA, ViewOld, FALSE, FALSE, "text", Some(<<"x">>))

viewB == Entry(TextB, ViewNew, FALSE, FALSE, "", Undefined)

viewC == Entry(TextC, ViewOld, TRUE, FALSE, "url", Some(<<"x", "y">>))

viewD == Entry(<<"{">>, ViewNew, FALSE, TRUE, "", Some(<<>>))

ViewEntries == {viewA, viewB, viewC, viewD}

(* The stores of at most three of these entries, in any order *)
ViewStores ==
  {<<>>}
    \cup {<<a>> : a \in ViewEntries}
    \cup {s \in {<<a, b>> : a \in ViewEntries, b \in ViewEntries} :
            s[1] # s[2]}
    \cup {s \in {<<a, b, c>> : a \in ViewEntries, b \in ViewEntries,
                                 c \in ViewEntries} :
            s[1] # s[2] /\ s[1] # s[3] /\ s[2] # s[3]}

Queries == {<<>>, <<"b">>, <<"A">>}

Filters == {"", "favorites", "recent", "oldest", "urls", "code", "tag:x"}

(* The popup opens: init() calls loadClipboardHistory() *)
InitView ==
  /\ history \in ViewStores
  /\ settings = DEFAULT_SETTINGS
  /\ globalTags = <<>>
  /\ tagColors = <<>>
  /\ freedColors = <<>>
  /\ jsonFile = <<>>
  /\ asyncOps = {}
  /\ confirmHandlers = <<>>
  /\ now = StartNow
  /\ pending = <<>>
  /\ searchQuery = <<>>
  /\ currentFilter = ""
  /\ windowHistory =
       filterHistoryArrays(loadClipboardHistory(history), <<>>, "").input
  /\ filteredHistory = filterHistory(loadClipboardHistory(history), <<>>, "")
  /\ last = Call("init", "", TRUE, "", 0, NoItem, FALSE, FALSE)

(* UI.refreshDisplay with the store holding stored *)
refreshDisplay(stored, query, filter) ==
  /\ windowHistory' =
       filterHistoryArrays(getClipboardHistory(stored), query, filter).input
  /\ filteredHistory' = filterHistory(getClipboardHistory(stored), query, filter)

(* The timestamps of the buttons of the list items *)
ShownStamps == {e.timestamp : e \in Range(filteredHistory)}

HandleSearch ==
  /\ \E query \in Queries :
       /\ searchQuery' = query
       /\ refreshDisplay(history, query, currentFilter)
  /\ last' = Call("handleSearch", "", TRUE, "", 0, NoItem, FALSE, FALSE)
  /\ UNCHANGED <<asyncVars, history, settings, globalTags, tagColors, freedColors, now, pending,
                 currentFilter>>

HandleFilterChange ==
  /\ \E filter \in Filters :
       /\ currentFilter' = filter
       /\ refreshDisplay(history, searchQuery, filter)
  /\ last' = Call("handleFilterChange", "", TRUE, "", 0, NoItem, FALSE, FALSE)
  /\ UNCHANGED <<asyncVars, history, settings, globalTags, tagColors, freedColors, now, pending,
                 searchQuery>>

HandleTogglePin ==
  /\ \E ts \in ShownStamps :
       LET r == togglePin(history, ts)
       IN  /\ history' = r.history
           /\ refreshDisplay(r.history, searchQuery, currentFilter)
           /\ last' = Call("handleTogglePin", "", r.ret, r.path, ts, NoItem,
                           FALSE, FALSE)
  /\ UNCHANGED <<asyncVars, settings, globalTags, tagColors, freedColors, now, pending, searchQuery,
                 currentFilter>>

HandleToggleFavorite ==
  /\ \E ts \in ShownStamps :
       LET r == toggleFavorite(history, ts)
       IN  /\ history' = r.history
           /\ refreshDisplay(r.history, searchQuery, currentFilter)
           /\ last' = Call("handleToggleFavorite", "", r.ret, r.path, ts, NoItem,
                           FALSE, FALSE)
  /\ UNCHANGED <<asyncVars, settings, globalTags, tagColors, freedColors, now, pending, searchQuery,
                 currentFilter>>

NextView ==
  \/ HandleSearch
  \/ HandleFilterChange
  \/ HandleTogglePin
  \/ HandleToggleFavorite

SpecView == InitView /\ [][NextView]_vars

----------------------------------------------------------------------------
(* Deleting from the list: the trash button and the Delete key hand the
   rendered item to handleDeleteItem, which decides on the item's favorite
   flag as rendered; the handlers of the star and of the deletion are async
   and finish with an un-awaited refreshDisplay *)

(* The store holds an entry with the timestamp as a favorite *)
IsFavorite(h, timestamp) ==
  \E e \in Range(h) : e.timestamp = timestamp /\ e.favorite

deleteA == Entry(TextA, StartNow - 2 * Granule, FALSE, FALSE, "text", Undefined)

deleteB == Entry(TextB, StartNow - Granule, FALSE, FALSE, "text", Undefined)

DeleteStores ==
  {<<[deleteB EXCEPT !.favorite = fb], [deleteA EXCEPT !.favorite = fa]>> :
     fa \in BOOLEAN, fb \in BOOLEAN}

(* A handler as started: op is the operation of Storage it awaits, via the
   way it was reached, favorite whether the store holds the entry as a
   favorite at the call, click the time of the gesture *)
HandlerOp(id, op, ts, via, favorite, click) ==
  [id |-> id, popup |-> 1, op |-> op, ts |-> ts, item |-> NoItem,
   pc |-> "get", local |-> <<>>, ret |-> FALSE, path |-> "",
   via |-> via, favorite |-> favorite, click |-> click]

InitDelete ==
  /\ history \in DeleteStores
  /\ settings = DEFAULT_SETTINGS
  /\ globalTags = <<>>
  /\ tagColors = <<>>
  /\ freedColors = <<>>
  /\ jsonFile = <<>>
  /\ asyncOps = {}
  /\ confirmHandlers = <<>>
  /\ now = StartNow
  /\ pending = <<>>
  /\ searchQuery = <<>>
  /\ currentFilter = ""
  /\ filteredHistory = filterHistory(loadClipboardHistory(history), <<>>, "")
  /\ windowHistory =
       filterHistoryArrays(loadClipboardHistory(history), <<>>, "").input
  /\ last = Call("init", "", TRUE, "", 0, NoItem, FALSE, FALSE)

(* The next gesture arrives later than the one before *)
NextClick ==
  /\ now < MaxNow
  /\ now' = now + Granule

(* handleToggleFavorite up to its await *)
ClickStar ==
  /\ NextClick
  /\ \E item \in Range(filteredHistory) :
       asyncOps' = asyncOps \cup
         {HandlerOp(Cardinality(asyncOps) + 1, "toggleFavorite",
                    item.timestamp, "star",
                    IsFavorite(history, item.timestamp), now)}
  /\ last' = Call("handleToggleFavorite", "", TRUE, "", 0, NoItem, FALSE, FALSE)
  /\ UNCHANGED <<history, settings, globalTags, tagColors, freedColors,
                 pending, viewVars, jsonFile, confirmHandlers>>

(* handleDeleteItem(item) from the trash button or the Delete key: a rendered
   favorite opens the modal, which adds a confirmHandler; any other item goes
   to deleteItem at once *)
HandleDeleteItem ==
  /\ NextClick
  /\ \E item \in Range(filteredHistory) :
       IF item.favorite
       THEN /\ confirmHandlers' = Append(confirmHandlers, item.timestamp)
            /\ asyncOps' = asyncOps
       ELSE /\ confirmHandlers' = confirmHandlers
            /\ asyncOps' = asyncOps \cup
                 {HandlerOp(Cardinality(asyncOps) + 1, "delete",
                            item.timestamp, "direct",
                            IsFavorite(history, item.timestamp), now)}
  /\ last' = Call("handleDeleteItem", "", TRUE, "", 0, NoItem, FALSE, FALSE)
  /\ UNCHANGED <<history, settings, globalTags, tagColors, freedColors,
                 pending, viewVars, jsonFile>>

(* A click on confirmDelete runs every confirmHandler listening on the
   button: each calls deleteItem for its item and removes itself *)
ClickConfirm ==
  /\ NextClick
  /\ confirmHandlers # <<>>
  /\ asyncOps' = asyncOps \cup
       {HandlerOp(Cardinality(asyncOps) + i, "delete", confirmHandlers[i],
                  "confirm", IsFavorite(history, confirmHandlers[i]), now) :
          i \in 1..Len(confirmHandlers)}
  /\ confirmHandlers' = <<>>
  /\ last' = Call("confirmHandler", "", TRUE, "", 0, NoItem, FALSE, FALSE)
  /\ UNCHANGED <<history, settings, globalTags, tagColors, freedColors,
                 pending, viewVars, jsonFile>>

(* A click on cancelDelete runs every cancelHandler: each removes itself and
   its confirmHandler *)
ClickCancel ==
  /\ NextClick
  /\ confirmHandlers # <<>>
  /\ confirmHandlers' = <<>>
  /\ last' = Call("cancelHandler", "", TRUE, "", 0, NoItem, FALSE, FALSE)
  /\ UNCHANGED <<history, settings, globalTags, tagColors, freedColors,
                 pending, viewVars, jsonFile, asyncOps>>

(* The operation of Storage reads the history *)
HandlerGet ==
  /\ \E o \in asyncOps :
       /\ o.pc = "get"
       /\ asyncOps' = (asyncOps \ {o}) \cup
            {[o EXCEPT !.pc = "set", !.local = getClipboardHistory(history)]}
  /\ UNCHANGED <<history, settings, globalTags, tagColors, freedColors, now,
                 pending, viewVars, jsonFile, confirmHandlers, last>>

(* The operation of Storage writes and returns; the handler goes on to
   refreshDisplay (deleteItem only when the deletion reported success) *)
HandlerSet ==
  /\ \E o \in asyncOps :
       LET r == IF o.op = "delete"
                THEN deleteClipboardItem(o.local, o.ts)
                ELSE toggleFavorite(o.local, o.ts)
           written == o.op = "delete" \/ r.path = "found"
           refreshes == o.op = "toggleFavorite" \/ r.ret
       IN  /\ o.pc = "set"
           /\ history' = IF written THEN r.history ELSE history
           /\ asyncOps' = (asyncOps \ {o}) \cup
                {[o EXCEPT !.pc = IF refreshes THEN "refresh" ELSE "done",
                           !.ret = r.ret, !.path = r.path]}
           /\ last' = Call(o.op, o.via, r.ret, r.path, o.ts, NoItem,
                           FALSE, FALSE)
  /\ UNCHANGED <<settings, globalTags, tagColors, freedColors, now, pending,
                 viewVars, jsonFile, confirmHandlers>>

(* refreshDisplay: await Storage.getClipboardHistory() returns *)
RefreshGet ==
  /\ \E o \in asyncOps :
       /\ o.pc = "refresh"
       /\ asyncOps' = (asyncOps \ {o}) \cup
            {[o EXCEPT !.pc = "render", !.local = getClipboardHistory(history)]}
  /\ UNCHANGED <<history, settings, globalTags, tagColors, freedColors, now,
                 pending, viewVars, jsonFile, confirmHandlers, last>>

(* refreshDisplay: window.clipboardHistory and the list are replaced *)
RefreshRender ==
  /\ \E o \in asyncOps :
       /\ o.pc = "render"
       /\ refreshDisplay(o.local, searchQuery, currentFilter)
       /\ asyncOps' = (asyncOps \ {o}) \cup {[o EXCEPT !.pc = "done"]}
  /\ last' = Call("refreshDisplay", "", TRUE, "", 0, NoItem, FALSE, FALSE)
  /\ UNCHANGED <<history, settings, globalTags, tagColors, freedColors, now,
                 pending, searchQuery, currentFilter, jsonFile,
                 confirmHandlers>>

NextDelete ==
  \/ ClickStar
  \/ HandleDeleteItem
  \/ ClickConfirm
  \/ ClickCancel
  \/ HandlerGet
  \/ HandlerSet
  \/ RefreshGet
  \/ RefreshRender

SpecDelete == InitDelete /\ [][NextDelete]_vars

----------------------------------------------------------------------------
(* Properties of the store. An action property reads the collection before
   the call (history), the collection after it (history') and the completed
   call (last'). *)

HasText(h, text) == \E e \in Range(h) : e.text = text

HasStamp(h, timestamp) == \E e \in Range(h) : e.timestamp = timestamp

SameEntries(h, g) == Range(h) = Range(g) /\ Len(h) = Len(g)

PinnedFirst(s) ==
  \A i, j \in 1..Len(s) : (s[i].pinned /\ ~s[j].pinned) => i < j

SavedNewText ==
  last'.op = "save" /\ ~HasText(history, last'.item.text)

SavedKnownText ==
  last'.op = "save" /\ HasText(history, last'.item.text)

(* C1: after any sequence of saves, imports, deletes, clears, toggles and
   tag operations from the empty store, no two stored entries have the same
   text. *)
C1_OneEntryPerText ==
  \A i, j \in 1..Len(history) :
    history[i].text = history[j].text => i = j

(* A save of a text the store already holds has completed, next to another
   entry *)
C1_Witness ==
  /\ last.op = "save"
  /\ last.path = "duplicate"
  /\ Len(history) >= 2
  /\ HasText(history, last.item.text)

(* C2, as stated: a save of a text the store holds keeps the size, returns
   true and gives the entry the timestamp of the saved item. *)
C2_Original ==
  [][SavedKnownText =>
       /\ Len(history') = Len(history)
       /\ last'.ret = TRUE
       /\ \E e \in Range(history') :
            e.text = last'.item.text /\ e.timestamp = last'.item.timestamp]_vars

(* C2, amended: a save of a text the store holds keeps the size, returns
   true and gives the entry the value of Date.now() at the call, whatever
   timestamp the saved item carries. *)
C2_DuplicateStampedNow ==
  [][SavedKnownText =>
       /\ Len(history') = Len(history)
       /\ last'.ret = TRUE
       /\ \E e \in Range(history') :
            e.text = last'.item.text /\ e.timestamp = now]_vars

(* An imported item with a timestamp of its own met an entry of its text:
   the entry does not carry the item's timestamp *)
C2_Witness ==
  /\ last.op = "save"
  /\ last.path = "duplicate"
  /\ last.ret = TRUE
  /\ \E e \in Range(history) :
       e.text = last.item.text /\ e.timestamp # last.item.timestamp

(* C3, as stated: when a save has completed, the store holds at most
   settings.maxItems entries. *)
C3_Original ==
  last.op = "save" => Len(history) <= settings.maxItems

(* The collection C4 describes for the save of item into h *)
evictionOf(h, item, maxItems) ==
  LET added == SortRecent(Append(SortRecent(h), item))
      pinned == SelectSeq(added, LAMBDA x : x.pinned)
      unpinned == SelectSeq(added, LAMBDA x : ~x.pinned)
      remainingSlots == maxItems - Len(pinned)
  IN  IF remainingSlots <= 0 THEN pinned
      ELSE pinned \o SubSeq(unpinned, 1, remainingSlots)

(* C4, as stated: a save of a new text that takes the collection over
   maxItems returns true and leaves all pinned entries followed by the first
   maxItems - pinnedCount unpinned ones (auto-delete off). *)
C4_Original ==
  [][(SavedNewText /\ Len(history) + 1 > settings.maxItems
        /\ ~settings.autoDelete) =>
       /\ last'.ret = TRUE
       /\ history' = evictionOf(history, last'.item, settings.maxItems)]_vars

(* C5: every pinned entry of the store before a save is in the store, and
   pinned, after it; only its timestamp may differ, when the save is of its
   text. *)
C5_PinnedSurviveSave ==
  [][last'.op = "save" =>
       \A e \in Range(history) :
         e.pinned =>
           \/ e \in Range(history')
           \/ /\ e.text = last'.item.text
              /\ [e EXCEPT !.timestamp = now] \in Range(history')]_vars

(* The sweep ran and removed the saved item's elders, and a pinned entry as
   old as they were is still there *)
C5_Witness ==
  /\ last.op = "save"
  /\ last.path = "sweep"
  /\ \E e \in Range(history) : e.pinned /\ e.timestamp = OldStamp
  /\ settings.autoDeleteDays = 30

(* C6: in what getClipboardHistory returns and in what filterHistory
   returns, for every query and filter, every pinned entry comes before
   every unpinned one. *)
C6_PinnedBeforeUnpinned ==
  PinnedFirst(windowHistory) /\ PinnedFirst(filteredHistory)

(* Under 'oldest' an entry was pinned, and it is shown before an older
   unpinned one *)
C6_Witness ==
  /\ last.op = "handleTogglePin"
  /\ last.ret = TRUE
  /\ currentFilter = "oldest"
  /\ Len(filteredHistory) >= 2
  /\ filteredHistory[1].pinned
  /\ ~filteredHistory[2].pinned
  /\ filteredHistory[1].timestamp > filteredHistory[2].timestamp

(* C7, as stated: with autoDelete on, after a save of a new text no stored
   entry is unpinned, not a favorite and older than autoDeleteDays, and no
   pinned or favorite entry has been removed. *)
C7_Original ==
  [][(SavedNewText /\ settings.autoDelete) =>
       /\ \A e \in Range(history') :
            e.pinned \/ e.favorite
              \/ e.timestamp >= now - settings.autoDeleteDays * DayLength
       /\ \A e \in Range(history) :
            (e.pinned \/ e.favorite) => e \in Range(history')]_vars

(* C8, as stated: a delete with a timestamp no entry has returns false and
   leaves the collection as it was. *)
C8_Original ==
  [][(last'.op = "delete" /\ ~HasStamp(history, last'.ts)) =>
       /\ last'.ret = FALSE
       /\ history' = history]_vars

(* C8, amended: a delete with a timestamp no entry has returns true and
   writes the collection back with the same entries. *)
C8_MissReturnsTrue ==
  [][(last'.op = "delete" /\ ~HasStamp(history, last'.ts)) =>
       /\ last'.ret = TRUE
       /\ SameEntries(history', history)]_vars

(* A delete of a timestamp that is not in the store has completed on a store
   with entries *)
C8_Witness ==
  /\ last.op = "delete"
  /\ last.ts = NoSuchStamp
  /\ last.ret = TRUE
  /\ history # <<>>

(* C9, as stated: a delete with the timestamp of an entry removes one entry
   and leaves every entry with another timestamp as it was. *)
C9_Original ==
  [][(last'.op = "delete" /\ HasStamp(history, last'.ts)) =>
       /\ Len(history') = Len(history) - 1
       /\ \A e \in Range(history) :
            e.timestamp # last'.ts => e \in Range(history')]_vars

(* C10: clearClipboardHistory(keepFavorites, keepPinned) leaves exactly the
   entries that are pinned with keepPinned or favorites with keepFavorites,
   each as it was and once; with both flags false it leaves nothing. *)
C10_ClearKeepsExactly ==
  [][last'.op = "clear" =>
       /\ last'.ret = TRUE
       /\ Range(history') =
            {e \in Range(history) :
               (last'.kp /\ e.pinned) \/ (last'.kf /\ e.favorite)}
       /\ Len(history') = Cardinality(Range(history'))
       /\ (~last'.kf /\ ~last'.kp) => history' = <<>>]_vars

(* clearClipboardHistory(true, false) has kept a favorite that is not
   pinned *)
C10_Witness ==
  /\ last.op = "clear"
  /\ last.kf = TRUE
  /\ last.kp = FALSE
  /\ \E e \in Range(history) : e.favorite /\ ~e.pinned

(* The collection g is h with the entry e replaced by f *)
Replaced(h, g, e, f) ==
  /\ Len(g) = Len(h)
  /\ Range(g) = (Range(h) \ {e}) \cup {f}

(* C11: toggleFavorite and togglePin with the timestamp of a stored entry
   flip that flag of one entry with that timestamp, leave its other fields
   and every other entry as they were, and return the new value of the
   flag. *)
C11_ToggleFlipsOneFlag ==
  [][((last'.op = "toggleFavorite" \/ last'.op = "togglePin")
        /\ HasStamp(history, last'.ts)) =>
       \E e \in Range(history) :
         /\ e.timestamp = last'.ts
         /\ IF last'.op = "toggleFavorite"
            THEN /\ Replaced(history, history', e,
                             [e EXCEPT !.favorite = ~e.favorite])
                 /\ last'.ret = ~e.favorite
            ELSE /\ Replaced(history, history', e,
                             [e EXCEPT !.pinned = ~e.pinned])
                 /\ last'.ret = ~e.pinned]_vars

(* toggleFavorite has set the flag of one of two entries that carry the
   same timestamp *)
C11_Witness ==
  /\ last.op = "toggleFavorite"
  /\ last.ret = TRUE
  /\ \E e \in Range(history), f \in Range(history) :
       /\ e.timestamp = last.ts /\ f.timestamp = last.ts
       /\ e.text # f.text
       /\ e.favorite /\ ~f.favorite

(* C12, as stated: an operation during which a storage call failed returns
   false (or nothing) and does not throw to its caller. *)
C12_Original ==
  last.via \in FaultNames => (last.path # "thrown" /\ last.ret = FALSE)

(* C13, as stated: a save, delete, toggle, addTagsToItem or removeTagFromItem
   during which a read or a write of the history failed leaves the stored
   history as it was. *)
C13_Original ==
  [][(last'.via \in {"get", "set"}
        /\ last'.op \in {"save", "delete", "toggleFavorite", "togglePin",
                         "addTags", "removeTag"}) =>
       history' = history]_vars

NoRepeat(s) == \A i, j \in 1..Len(s) : s[i] = s[j] => i = j

(* C14: after any sequence of addTagsToItem and removeTagFromItem calls, with
   any tags argument, the tags of every entry hold each tag name at most
   once *)
C14_Original ==
  \A i \in 1..Len(history) : NoRepeat(TagsOf(history[i]))

(* C15: after addTagsToItem(timestamp, tags) returns success, every tag name
   in tags is among the tags of the entry, is in the global tag list, which
   holds no name twice, and has a color in tagColors *)
C15_Original ==
  (last.op = "addTags" /\ last.ret = TRUE) =>
    /\ NoRepeat(globalTags)
    /\ \A tag \in Range(TagsOf(last.item)) :
         /\ \E i \in 1..Len(history) :
              /\ history[i].timestamp = last.ts
              /\ SeqIncludes(TagsOf(history[i]), tag)
         /\ SeqIncludes(globalTags, tag)
         /\ tag \in DOMAIN tagColors

(* The tags of the first stored entry with the timestamp, <<>> without one *)
TagsAt(h, ts) ==
  LET i == FindIndex([k \in 1..Len(h) |-> h[k].timestamp = ts])
  IN  IF i = 0 THEN <<>> ELSE TagsOf(h[i])

(* The names of s that are in the set, each once, in order of appearance *)
FirstOf(s, set) == uniqueFrom(<<>>, SelectSeq(s, LAMBDA x : x \in set))

(* C16: updateGlobalTags gives each tag without a color the palette entry at
   index (number of color assignments that exist when it is reached) mod 10,
   and a tag that has a color keeps it for as long as it has one *)
C16_PaletteByCount ==
  [][/\ \A tag \in DOMAIN tagColors \cap DOMAIN tagColors' :
          tagColors'[tag] = tagColors[tag]
     /\ (last'.op = "addTags" /\ last'.ret = TRUE) =>
          LET passed == Range(TagsOf(last'.item)) \
                          Range(TagsAt(history, last'.ts))
              fresh == FirstOf(TagsOf(last'.item), passed \ DOMAIN tagColors)
              n == Cardinality(DOMAIN tagColors)
          IN  /\ DOMAIN tagColors' = DOMAIN tagColors \cup Range(fresh)
              /\ \A k \in 1..Len(fresh) :
                   tagColors'[fresh[k]] =
                     colorPalette[((n + k - 1) % 10) + 1]]_vars

(* Two tags are colored by one call when ten colors are assigned: the
   palette starts over *)
C16_Witness ==
  /\ last.op = "addTags"
  /\ last.ret = TRUE
  /\ TagsOf(last.item) = <<"x", "y">>
  /\ Cardinality(DOMAIN tagColors) = 12
  /\ tagColors["x"] = colorPalette[1]
  /\ tagColors["y"] = colorPalette[2]
  /\ tagColors["t0"] = colorPalette[1]

(* C17 as stated: a tag that was removed globally and then added again has a
   palette entry other than the one it had when it was removed *)
C17_Original ==
  \A tag \in DOMAIN freedColors \cap DOMAIN tagColors :
    tagColors[tag] # freedColors[tag]

(* C17: the global removal of a tag deletes its color, and a tag that is
   added again after its removal gets the palette entry at index (number of
   color assignments at that moment) mod 10, whatever color it had before *)
C17_ReaddedByCount ==
  [][/\ (last'.op = "removeTagGlobally" /\ last'.ret = TRUE) =>
          \A tag \in Range(TagsOf(last'.item)) : tag \notin DOMAIN tagColors'
     /\ (last'.op = "addTags" /\ last'.ret = TRUE) =>
          LET colored == DOMAIN tagColors' \ DOMAIN tagColors
              order == FirstOf(TagsOf(last'.item), colored)
          IN  \A k \in 1..Len(order) :
                order[k] \in DOMAIN freedColors =>
                  tagColors'[order[k]] =
                    colorPalette[((Cardinality(DOMAIN tagColors) + k - 1)
                                    % Len(colorPalette)) + 1]]_vars

(* A tag was removed globally, added again, and has the color it had *)
C17_Witness ==
  /\ last.op = "addTags"
  /\ last.ret = TRUE
  /\ "x" \in Range(TagsOf(last.item))
  /\ "x" \in DOMAIN freedColors \cap DOMAIN tagColors
  /\ tagColors["x"] = freedColors["x"]

Without(s, x) == SelectSeq(s, LAMBDA y : y # x)

(* The entry f is e without the tag: every other field and every other tag,
   in order, is as in e *)
StrippedOf(e, f, tag) ==
  /\ [f EXCEPT !.tags = Undefined] = [e EXCEPT !.tags = Undefined]
  /\ TagsOf(f) = Without(TagsOf(e), tag)
  /\ (f.tags = Undefined) <=> (e.tags = Undefined)

(* C18: after the popup's removeTag for tag T completes, T is absent from the
   global tag list, from tagColors and from the tags of every stored entry,
   and all other tags, colors and entry fields are as they were *)
C18_RemoveTagEverywhere ==
  [][(last'.op = "removeTagGlobally" /\ last'.ret = TRUE) =>
       LET T == TagsOf(last'.item)[1]
       IN  /\ ~SeqIncludes(globalTags', T)
           /\ T \notin DOMAIN tagColors'
           /\ \A i \in 1..Len(history') : ~SeqIncludes(TagsOf(history'[i]), T)
           /\ globalTags' = Without(globalTags, T)
           /\ DOMAIN tagColors' = DOMAIN tagColors \ {T}
           /\ \A tag \in DOMAIN tagColors' : tagColors'[tag] = tagColors[tag]
           /\ Len(history') = Len(history)
           /\ \A e \in Range(history) : \E f \in Range(history') :
                StrippedOf(e, f, T)
           /\ \A f \in Range(history') : \E e \in Range(history) :
                StrippedOf(e, f, T)
           /\ settings' = settings]_vars

(* 'x' was removed globally while an entry carried 'x' and 'y': the entry
   keeps 'y', and 'y' keeps its place in the list and its color *)
C18_Witness ==
  /\ last.op = "removeTagGlobally"
  /\ last.ret = TRUE
  /\ TagsOf(last.item) = <<"x">>
  /\ "x" \in DOMAIN freedColors
  /\ SeqIncludes(globalTags, "y")
  /\ "y" \in DOMAIN tagColors
  /\ \E i, j \in 1..Len(history) :
       /\ TagsOf(history[i]) = <<"y">>
       /\ history[j].tags = Undefined

(* The text holds the query, letter case aside *)
MatchesQuery(e, query) ==
  \E i \in 0..(Len(e.text) - Len(query)) :
    \A k \in 1..Len(query) :
      ToLowerChar(e.text[i + k]) = ToLowerChar(query[k])

MatchesSelector(e, filter) ==
  CASE filter = "favorites" -> e.favorite
    [] filter = "tag:x" -> "x" \in Range(TagsOf(e))
    [] filter = "tag:y" -> "y" \in Range(TagsOf(e))
    [] filter = "urls" -> typeOf(e) = "url"
    [] filter = "code" -> typeOf(e) = "code"
    [] OTHER -> TRUE

(* Pinned entries come first; among entries pinned alike, timestamps fall, or
   rise when ascending *)
OrderedView(s, ascending) ==
  \A i, j \in 1..Len(s) :
    i < j =>
      /\ s[j].pinned => s[i].pinned
      /\ (s[i].pinned = s[j].pinned) =>
           IF ascending THEN s[i].timestamp <= s[j].timestamp
           ELSE s[i].timestamp >= s[j].timestamp

(* C19: filterHistory returns exactly the entries that hold the search query
   (case-insensitive) and satisfy the selector, pinned first and then by
   falling timestamp, by rising timestamp for 'oldest'; with one favorite
   entry X and no query, 'favorites' returns <<X>> *)
C19_ViewIsSelection ==
  LET matching == {e \in Range(windowHistory) :
                     /\ searchQuery # <<>> => MatchesQuery(e, searchQuery)
                     /\ MatchesSelector(e, currentFilter)}
      favorites == {e \in Range(windowHistory) : e.favorite}
  IN  /\ Range(filteredHistory) = matching
      /\ Len(filteredHistory) = Cardinality(matching)
      /\ OrderedView(filteredHistory, currentFilter = "oldest")
      /\ (currentFilter = "favorites" /\ searchQuery = <<>>
            /\ Cardinality(favorites) = 1) =>
           \A X \in favorites : filteredHistory = <<X>>

(* The query 'b' under 'oldest' keeps 'ab' and 'B' of three entries, the
   older first *)
C19_Witness ==
  /\ searchQuery = <<"b">>
  /\ currentFilter = "oldest"
  /\ Len(windowHistory) = 3
  /\ Len(filteredHistory) = 2
  /\ filteredHistory[1].text = TextC
  /\ filteredHistory[2].text = TextB
  /\ filteredHistory[1].timestamp < filteredHistory[2].timestamp

(* The selectors that stand for no filter: the initial '' and 'all' *)
DefaultFilters == {"", "all"}

(* C20 as stated: for every query and every selector, 'oldest' included, the
   view with no query and the default filter of a view is that view *)
C20_Original ==
  \A default \in DefaultFilters :
    filterHistory(filteredHistory, <<>>, default) = filteredHistory

(* C20: for every query and every selector other than 'oldest', the view with
   no query and the default filter of a view is that view; of the view under
   'oldest' it is the view under 'recent' of the same entries *)
C20_IdempotentUnlessOldest ==
  \A default \in DefaultFilters :
    filterHistory(filteredHistory, <<>>, default) =
      IF currentFilter = "oldest"
      THEN filterHistory(windowHistory, searchQuery, "recent")
      ELSE filteredHistory

(* Three entries under 'oldest', a pinned one first: the default view of the
   list puts the two others the other way round *)
C20_Witness ==
  /\ currentFilter = "oldest"
  /\ Len(filteredHistory) = 3
  /\ filteredHistory[1].pinned
  /\ filteredHistory[2].timestamp < filteredHistory[3].timestamp
  /\ filterHistory(filteredHistory, <<>>, "all") =
       <<filteredHistory[1], filteredHistory[3], filteredHistory[2]>>

(* C21: filterHistory returns a new sequence and leaves its input as it was,
   same entries in the same order with the same fields, for every query and
   selector, the sorting ones included: the array the list was rendered from
   is still the array read from the store, and a further call on it (selectAll)
   leaves it alone and returns another array *)
C21_InputUntouched ==
  LET run == filterHistoryArrays(windowHistory, searchQuery, currentFilter)
  IN  /\ windowHistory \in {getClipboardHistory(history),
                            loadClipboardHistory(history)}
      /\ run.input = windowHistory
      /\ run.returned # "input"
      /\ run.ret = filteredHistory

(* Under 'oldest' with no query the returned list is in another order than
   the array it was computed from *)
C21_Witness ==
  /\ last.op = "handleFilterChange"
  /\ currentFilter = "oldest"
  /\ searchQuery = <<>>
  /\ Len(windowHistory) = 3
  /\ Len(filteredHistory) = 3
  /\ filteredHistory # windowHistory
  /\ windowHistory = getClipboardHistory(history)

(* The text, favorite, type and timestamp values of the entries *)
TripValues(h) ==
  {<<e.text, e.favorite, e.type, e.timestamp>> : e \in Range(h)}

(* An import of the exported file into the empty store has run to its end *)
TripDone ==
  /\ pending = <<>>
  /\ \/ last.op = "save" /\ last.via = "import"
     \/ last.op = "importHistory"
     \/ last.op = "import" /\ jsonFile = <<>>

(* C22: exporting a collection as JSON and importing that text into an empty
   store with room for it reproduces the entries: the same text, favorite and
   type values, with every timestamp as exported *)
C22_Original ==
  TripDone =>
    /\ TripValues(history) = TripValues(JSONparse(jsonFile))
    /\ Len(history) = Len(jsonFile)

(* An import of the file has run to its end *)
BatchDone ==
  /\ pending = <<>>
  /\ \/ last.op = "save" /\ last.via = "import"
     \/ last.op = "importHistory"
     \/ last.op = "import" /\ last.path \in {"none", "thrown"}

(* C23: a candidate that fails validation (text missing, empty, not a string,
   or the candidate no record at all, such as null) is dropped, and every
   valid candidate of the same batch is saved all the same *)
C23_Original ==
  BatchDone =>
    /\ \A i \in 1..Len(jsonFile) :
         (jsonFile[i] # JSONnull /\ popupValid(jsonFile[i])) =>
           HasText(history, jsonFile[i].text.string)
    /\ \A e \in Range(history) :
         \E i \in 1..Len(jsonFile) :
           /\ jsonFile[i] # JSONnull
           /\ storageValid(jsonFile[i])
           /\ jsonFile[i].text.string = e.text

(* Two operations of one instance have both read the history and neither has
   written it yet *)
Overlap(o1, o2) ==
  /\ o1.id # o2.id
  /\ o1.popup = o2.popup
  /\ o1.pc = "set"
  /\ o2.pc = "set"

(* C24: within one popup instance only one store operation runs at a time:
   the read-modify-write of one gesture never interleaves with that of
   another, so two successful operations on different entries in one popup
   both take effect *)
C24_Original ==
  /\ \A o1, o2 \in asyncOps : ~Overlap(o1, o2)
  /\ \A o1, o2 \in asyncOps :
       (/\ o1.popup = o2.popup
        /\ o1.pc = "done" /\ o2.pc = "done"
        /\ o1.op = "toggleFavorite" /\ o2.op = "toggleFavorite"
        /\ o1.ts # o2.ts
        /\ o1.ret = TRUE /\ o2.ret = TRUE) =>
         IsFavorite(history, o1.ts) /\ IsFavorite(history, o2.ts)

(* The operation o completes in this step *)
Completes(o) ==
  /\ o.pc = "set"
  /\ \E d \in asyncOps' : d.id = o.id /\ d.pc = "done"

(* C25: with two popup instances over one backing store there is no mutual
   exclusion: an operation that writes stores the change applied to the copy
   it read earlier, whatever another instance wrote in between, so an
   interleaving exists after which two toggleFavorite calls both returned
   success and only one update is in the store *)
C25_WritesOwnRead ==
  [][\A o \in asyncOps :
       (Completes(o) /\ asyncWrites(o, asyncResult(o, settings, DateNow))) =>
         history' = asyncResult(o, settings, DateNow).history]_vars

(* Two toggleFavorite calls from different instances on different entries
   both returned true and exactly one of the entries is favorite *)
C25_Witness ==
  \E o1, o2 \in asyncOps :
    /\ o1.popup # o2.popup
    /\ o1.pc = "done" /\ o2.pc = "done"
    /\ o1.op = "toggleFavorite" /\ o2.op = "toggleFavorite"
    /\ o1.ts # o2.ts
    /\ o1.ret = TRUE /\ o2.ret = TRUE
    /\ IsFavorite(history, o1.ts)
    /\ ~IsFavorite(history, o2.ts)

(* Two deletions started by the same click on confirmDelete have both
   removed their entries *)
SameClick(o1, o2) ==
  /\ o1.id # o2.id
  /\ o1.op = "delete" /\ o2.op = "delete"
  /\ o1.via = "confirm" /\ o2.via = "confirm"
  /\ o1.click = o2.click
  /\ o1.ts # o2.ts
  /\ o1.path = "removed" /\ o2.path = "removed"

(* C26: an entry that is favorite in the store is never deleted by the
   single-item delete gesture (trash button or Delete key) without a
   confirmation click, for every ordering of toggle-favorite, re-render,
   delete and confirm events, and one confirm click deletes at most one
   entry *)
C26_Original ==
  /\ \A o \in asyncOps :
       (o.op = "delete" /\ o.favorite) => o.via = "confirm"
  /\ \A o1, o2 \in asyncOps : ~SameClick(o1, o2)

(* C27: when saveClipboardItem finds an entry with the text of the item, it
   changes only that entry's timestamp: the entry's favorite, pinned, tags
   and type, and every other entry, stay as they were, and the favorite, type
   and tags of the incoming item are discarded *)
C27_DuplicateOnlyStamp ==
  [][SavedKnownText =>
       /\ Len(history') = Len(history)
       /\ \A e \in Range(history) :
            IF e.text = last'.item.text
            THEN [e EXCEPT !.timestamp = now] \in Range(history')
            ELSE e \in Range(history')
       /\ \A f \in Range(history') :
            \/ f \in Range(history)
            \/ \E e \in Range(history) :
                 e.text = last'.item.text /\ f = [e EXCEPT !.timestamp = now]]_vars

(* An item whose favorite flag and tags differ from those of the stored entry
   of its text was saved next to another entry *)
C27_Witness ==
  /\ last.op = "save"
  /\ last.path = "duplicate"
  /\ last.ret = TRUE
  /\ Len(history) >= 2
  /\ \E e \in Range(history) :
       /\ e.text = last.item.text
       /\ e.timestamp = now
       /\ e.favorite # last.item.favorite
       /\ e.tags # last.item.tags

(* C28: the success indicator of saveClipboardItem is truthful: when it
   returns true an entry with the text of the item is in the store right
   afterwards, and when it returns false the store is unchanged, for every
   timestamp of the item (old timestamps of imported data included) and
   every value of maxItems, autoDelete and autoDeleteDays *)
C28_Original ==
  [][last'.op = "save" =>
       /\ last'.ret = TRUE => HasText(history', last'.item.text)
       /\ last'.ret = FALSE => history' = history]_vars

(* C29: after any sequence of saves, imports, addTagsToItem,
   removeTagFromItem and global tag removals, every tag name on a stored
   entry is in the global tag list and has a color in tagColors *)
C29_Original ==
  \A e \in Range(history) : \A tag \in Range(TagsOf(e)) :
    SeqIncludes(globalTags, tag) /\ tag \in DOMAIN tagColors

(* C30: while at most ten tags are registered, any two distinct registered
   tags have distinct colors in tagColors, after any sequence of tag
   registrations and global tag removals *)
C30_Original ==
  Len(globalTags) <= 10 =>
    \A t1, t2 \in DOMAIN tagColors :
      (t1 # t2 /\ SeqIncludes(globalTags, t1) /\ SeqIncludes(globalTags, t2)) =>
        tagColors[t1] # tagColors[t2]

============================================================================
